---- MODULE Spec2Model ----
(***************************************************************************)
(* A model of the AIDE agent server: the requirement-gathering router of   *)
(* agents/orchestrator.py, the project store of storage/local_storage.py,  *)
(* the request handlers of main.py and the generation entry point of       *)
(* services/project_builder.py.                                            *)
(*                                                                         *)
(* Texts (user messages, agent replies) are TLA+ strings; the Python       *)
(* string operations the code applies to them (lower, strip, endswith,     *)
(* len, `k in s`) are modelled character by character.                     *)
(***************************************************************************)
EXTENDS Integers, Sequences, FiniteSets, TLC

(***************************************************************************)
(* Bounds of the model.                                                    *)
(***************************************************************************)
\* user turns handled per project
MaxTurns == 2
\* generation runs per project
MaxRuns == 1
\* generation runs when several projects are served
MaxProjectRuns == 2
\* preview servers running at a time
MaxServers == 2

(***************************************************************************)
(* Python string operations.                                               *)
(***************************************************************************)
UpperChars == "ABCDEFGHIJKLMNOPQRSTUVWXYZ"
LowerChars == "abcdefghijklmnopqrstuvwxyz"

CharAt(s, i) == SubSeq(s, i, i)

\* str.lower() on one character (ASCII letters)
LowerChar(c) ==
    IF \E i \in 1..Len(UpperChars) : CharAt(UpperChars, i) = c
    THEN CharAt(LowerChars, CHOOSE i \in 1..Len(UpperChars) : CharAt(UpperChars, i) = c)
    ELSE c

RECURSIVE Lower(_)
\* str.lower()
Lower(s) ==
    IF Len(s) = 0 THEN ""
    ELSE LowerChar(CharAt(s, 1)) \o Lower(SubSeq(s, 2, Len(s)))

IsSpace(c) == c \in {" ", "\t", "\n", "\r"}

RECURSIVE LStrip(_)
LStrip(s) ==
    IF Len(s) > 0 /\ IsSpace(CharAt(s, 1)) THEN LStrip(SubSeq(s, 2, Len(s))) ELSE s

RECURSIVE RStrip(_)
RStrip(s) ==
    IF Len(s) > 0 /\ IsSpace(CharAt(s, Len(s))) THEN RStrip(SubSeq(s, 1, Len(s) - 1)) ELSE s

\* str.strip()
Strip(s) == RStrip(LStrip(s))

\* the Python test `k in s` on strings
Contains(k, s) ==
    \E i \in 1..(Len(s) - Len(k) + 1) : SubSeq(s, i, i + Len(k) - 1) = k

\* str.endswith(suf)
EndsWith(s, suf) ==
    Len(s) >= Len(suf) /\ SubSeq(s, Len(s) - Len(suf) + 1, Len(s)) = suf

\* any(k in s for k in ks), ks a sequence
AnyIn(ks, s) == \E j \in 1..Len(ks) : Contains(ks[j], s)

\* str.startswith(pre)
StartsWith(s, pre) == Len(s) >= Len(pre) /\ SubSeq(s, 1, Len(pre)) = pre

\* the positions at which sep starts in s
Occurrences(sep, s) ==
    { i \in 1..(Len(s) - Len(sep) + 1) : SubSeq(s, i, i + Len(sep) - 1) = sep }

\* the least element of a nonempty set of integers
Least(S) == CHOOSE x \in S : \A y \in S : x <= y

\* the greatest element of a nonempty set of integers
Greatest(S) == CHOOSE x \in S : \A y \in S : x >= y

\* s.split(sep)[0]
BeforeFirst(s, sep) ==
    IF Occurrences(sep, s) = {} THEN s ELSE SubSeq(s, 1, Least(Occurrences(sep, s)) - 1)

\* s.split(sep)[-1], sep one character
AfterLast(s, sep) ==
    IF Occurrences(sep, s) = {} THEN s
    ELSE SubSeq(s, Greatest(Occurrences(sep, s)) + 1, Len(s))

RECURSIVE Split(_, _)
\* s.split(sep), sep one character
Split(s, sep) ==
    IF Occurrences(sep, s) = {} THEN << s >>
    ELSE << SubSeq(s, 1, Least(Occurrences(sep, s)) - 1) >>
         \o Split(SubSeq(s, Least(Occurrences(sep, s)) + 1, Len(s)), sep)

\* the Python test `x in xs` on a list
InList(x, xs) == \E i \in 1..Len(xs) : xs[i] = x

\* s[:n]
Slice(s, n) == IF Len(s) > n THEN SubSeq(s, 1, n) ELSE s

\* s.count(c), c one character
Count(c, s) == Cardinality(Occurrences(c, s))

\* the character is an ASCII letter
IsLetter(c) ==
    Len(c) = 1 /\ (Contains(c, UpperChars) \/ Contains(c, LowerChars))

RECURSIVE JoinWith(_, _)
\* sep.join(parts)
JoinWith(sep, parts) ==
    IF Len(parts) = 0 THEN ""
    ELSE IF Len(parts) = 1 THEN parts[1]
    ELSE parts[1] \o sep \o JoinWith(sep, Tail(parts))

(***************************************************************************)
(* The agent chain and the router's keyword tables.                        *)
(***************************************************************************)
agent_chain ==
    << "requirements_evolver", "ux_architect", "ui_designer", "frontend_engineer",
       "data_architect", "api_designer", "devops" >>

Agents == { agent_chain[i] : i \in 1..Len(agent_chain) }

\* list.index
ChainIndex(a) == CHOOSE i \in 1..Len(agent_chain) : agent_chain[i] = a

approval_keywords ==
    << "approved", "perfect", "looks good", "proceed", "move forward",
       "next phase", "next agent", "switch to" >>

\* the dict literal, in its declaration (= iteration) order
agent_keywords ==
    << [agent |-> "ui_designer",
        keywords |-> << "change design", "change color", "ui design", "ui" >>],
       [agent |-> "ux_architect",
        keywords |-> << "navigate", "user flow", "ux", "experience", "usability", "interface" >>],
       [agent |-> "data_architect",
        keywords |-> << "database", "data", "store", "save", "storage", "persist" >>],
       [agent |-> "api_designer",
        keywords |-> << "api", "backend", "server", "endpoint", "rest", "json" >>],
       [agent |-> "frontend_engineer",
        keywords |-> << "javascript", "react", "vue", "frontend", "client", "browser",
                        "technical", "implementation" >>],
       [agent |-> "devops",
        keywords |-> << "deploy", "host", "server", "domain", "production", "cloud" >>] >>

(***************************************************************************)
(* Substance classifier.                                                   *)
(***************************************************************************)
MinResponseLen == 20
EarlyMinLen == 30
PureQuestionMaxLen == 80
TechnicalMinLen == 40

early_agents == { "requirements_evolver", "ux_architect", "ui_designer" }

question_phrases == << "what would", "can you", "please provide" >>

\* technical_indicators.get(agent_name, [])
technical_indicators(agent_name) ==
    CASE agent_name = "frontend_engineer" -> << "javascript", "framework", "component", "interaction" >>
      [] agent_name = "data_architect" -> << "database", "storage", "data", "schema" >>
      [] agent_name = "api_designer" -> << "endpoint", "api", "rest", "backend" >>
      [] agent_name = "devops" -> << "deployment", "hosting", "server", "cloud" >>
      [] OTHER -> << >>

\* variant: an early agent's reply counts whenever it is long enough
_has_substantial_content_any_question(response, agent_name) ==
    LET response_clean == Strip(response)
        response_lower == Lower(response_clean)
    IN  IF Len(response_clean) < MinResponseLen
        THEN FALSE
        ELSE IF agent_name \in early_agents
        THEN Len(response_clean) >= EarlyMinLen
        ELSE /\ Len(response_clean) >= TechnicalMinLen
             /\ AnyIn(technical_indicators(agent_name), response_lower)

_has_substantial_content(response, agent_name) ==
    LET response_clean == Strip(response)
        response_lower == Strip(Lower(response))
        is_pure_question ==
            /\ EndsWith(response_clean, "?")
            /\ Len(response_clean) < PureQuestionMaxLen
            /\ AnyIn(question_phrases, response_lower)
    IN  IF Len(response) = 0 \/ Len(response_clean) < MinResponseLen THEN FALSE
        ELSE IF agent_name \in early_agents
             THEN Len(response_clean) >= EarlyMinLen /\ ~is_pure_question
             ELSE /\ Len(response_clean) >= TechnicalMinLen
                  /\ AnyIn(technical_indicators(agent_name), response_lower)

(***************************************************************************)
(* Generation readiness gate.  A ledger (`requirements`) is a function     *)
(* from the agents that have a record to their records.                    *)
(***************************************************************************)
\* sum(1 for agent_data in requirements.values() if agent_data.get('has_substance'))
SubstantialAgents(requirements) ==
    { a \in DOMAIN requirements : requirements[a].has_substance }

\* variant: two substantive agents are required, whoever they are
RequiresTwoAgents(project_data) ==
    Cardinality(SubstantialAgents(project_data.requirements)) >= 2

_has_minimal_requirements(project_data) ==
    LET requirements == project_data.requirements
        substantial_agents == Cardinality(SubstantialAgents(requirements))
        has_requirements_evolver ==
            /\ "requirements_evolver" \in DOMAIN requirements
            /\ requirements["requirements_evolver"].has_substance
    IN  \/ substantial_agents >= 2
        \/ (has_requirements_evolver /\ substantial_agents >= 1)
        \/ substantial_agents >= 3

_get_generation_status_message(can_generate, substantial_agents) ==
    IF can_generate THEN "ready"
    ELSE IF substantial_agents = 0 THEN "describe requirements first"
    ELSE IF substantial_agents = 1 THEN "getting there"
    ELSE "making progress"

\* the status dictionary of can_generate_code
can_generate_code(project_data) ==
    LET has_minimal_requirements == _has_minimal_requirements(project_data)
        contributions == SubstantialAgents(project_data.requirements)
    IN  [ can_generate |-> has_minimal_requirements,
          substantial_agents |-> Cardinality(contributions),
          agent_contributions |-> contributions,
          has_minimal_requirements |-> has_minimal_requirements,
          message |-> _get_generation_status_message(has_minimal_requirements,
                                                     Cardinality(contributions)) ]

(***************************************************************************)
(* Routing decision.                                                       *)
(***************************************************************************)
\* any(keyword in message_lower for keyword in approval_keywords)
HasApproval(message_lower) == AnyIn(approval_keywords, message_lower)

\* variant: a role name of the override map is misspelt
ApprovalTargetMisspelt(current_agent) ==
    CASE current_agent = "ui_designer" -> "frontend_engineer"
      [] current_agent = "requirements_evolver" -> "ux_architect"
      [] current_agent = "ux_architect" -> "frontend_developer"
      [] OTHER -> ""

\* variant: an approval of the design starts the chain over
ApprovalTargetRestarting(current_agent) ==
    CASE current_agent = "ui_designer" -> "requirements_evolver"
      [] current_agent = "requirements_evolver" -> "ux_architect"
      [] current_agent = "ux_architect" -> "frontend_engineer"
      [] OTHER -> ""

\* the override map applied on approval; "" where the code falls through
ApprovalTarget(current_agent) ==
    CASE current_agent = "ui_designer" -> "frontend_engineer"
      [] current_agent = "requirements_evolver" -> "ux_architect"
      [] current_agent = "ux_architect" -> "frontend_engineer"
      [] OTHER -> ""

\* the positions of agent_keywords whose keywords occur in the message
KeywordHits(message_lower) ==
    { i \in 1..Len(agent_keywords) : AnyIn(agent_keywords[i].keywords, message_lower) }

Min(S) == CHOOSE x \in S : \A y \in S : x <= y

\* variant: the matching agent that comes first in the chain
KeywordAgentChainOrder(message_lower) ==
    IF KeywordHits(message_lower) = {} THEN ""
    ELSE agent_chain[Min({ ChainIndex(agent_keywords[i].agent) :
                           i \in KeywordHits(message_lower) })]

\* the `for agent_name, keywords in agent_keywords.items()` loop: the first
\* entry, in the dict's order, one of whose keywords occurs; "" when none does
KeywordAgent(message_lower) ==
    IF KeywordHits(message_lower) = {} THEN ""
    ELSE agent_keywords[Min(KeywordHits(message_lower))].agent

\* variant: only the replies of the agent are counted
MessageCountOfReplies(messages, current_agent) ==
    Cardinality({ i \in 1..Len(messages) :
                    messages[i].agent = current_agent /\ messages[i].role = "agent" })

\* len([msg for msg in messages if msg.get('agent') == current_agent])
MessageCount(messages, current_agent) ==
    Cardinality({ i \in 1..Len(messages) : messages[i].agent = current_agent })

\* variant: only a substantive record advances, the message count is ignored
ProgressAgentRecordOnly(current_agent, project_data) ==
    IF /\ current_agent \in Agents
       /\ current_agent \in DOMAIN project_data.requirements
       /\ project_data.requirements[current_agent].has_substance
       /\ ChainIndex(current_agent) < Len(agent_chain)
    THEN agent_chain[ChainIndex(current_agent) + 1]
    ELSE current_agent

\* the progress-based branch and the final `return current_agent`
ProgressAgent(current_agent, project_data) ==
    IF current_agent \in Agents
    THEN LET requirements == project_data.requirements
             current_index == ChainIndex(current_agent)
             current_has_contributed ==
                 /\ current_agent \in DOMAIN requirements
                 /\ requirements[current_agent].has_substance
             message_count == MessageCount(project_data.messages, current_agent)
         IN  IF /\ (current_has_contributed \/ message_count >= 2)
                /\ current_index < Len(agent_chain)
             THEN agent_chain[current_index + 1]
             ELSE current_agent
    ELSE current_agent

\* variant: the message is not lowercased before the tables are searched
MessageFactsCaseSensitive(user_message) ==
    [ approval |-> HasApproval(user_message),
      keyword_agent |-> KeywordAgent(user_message) ]

\* what the decision reads of the message text
MessageFacts(user_message) ==
    LET message_lower == Lower(user_message)
    IN  [ approval |-> HasApproval(message_lower),
          keyword_agent |-> KeywordAgent(message_lower) ]

\* variant: the keyword rule is tried before the approval override
DecideKeywordFirst(current_agent, facts, project_data) ==
    IF facts.keyword_agent # "" THEN facts.keyword_agent
    ELSE IF facts.approval /\ ApprovalTarget(current_agent) # ""
    THEN ApprovalTarget(current_agent)
    ELSE ProgressAgent(current_agent, project_data)

\* the decision, given the facts of the message
Decide(current_agent, facts, project_data) ==
    IF facts.approval /\ ApprovalTarget(current_agent) # ""
    THEN ApprovalTarget(current_agent)
    ELSE IF facts.keyword_agent # "" THEN facts.keyword_agent
    ELSE ProgressAgent(current_agent, project_data)

(***************************************************************************)
(* Inputs of the model.                                                    *)
(***************************************************************************)
ProjectIds == { "p1" }

\* user messages of the conversation
UserMessages ==
    { "I want a todo app",
      "Looks good, proceed",
      "Perfect, now the database",
      "UI and UX",
      "Put it on a server",
      "Deploy to the cloud" }

\* replies of the completion service to an agent prompt
Replies ==
    { "What would you like the app to do?",
      "The app tracks tasks for small teams.",
      "Use a REST api backend, a database schema, javascript components and cloud hosting." }

\* every keyword and approval phrase of the router's tables
KeywordPhrases ==
    UNION { { agent_keywords[i].keywords[j] : j \in 1..Len(agent_keywords[i].keywords) } :
            i \in 1..Len(agent_keywords) }
ApprovalPhrases == { approval_keywords[j] : j \in 1..Len(approval_keywords) }

\* messages handed to the routing decision on its own: one phrase of the
\* tables, or a phrase followed by a blank and a second phrase, or one of the
\* conversation's messages
RoutePhrases == KeywordPhrases \cup ApprovalPhrases \cup { "hello", "OK" }
RouteSeconds == { "ui", "ux", "data", "api", "react", "deploy", "server", "proceed" }
RouteMessages ==
    RoutePhrases \cup { a \o " " \o b : a \in RoutePhrases, b \in RouteSeconds }
                 \cup UserMessages

\* MessageFacts, computed once per message text
message_facts == [ m \in RouteMessages |-> MessageFacts(m) ]

_determine_next_agent_enhanced(current_agent, user_message, project_data) ==
    Decide(current_agent, message_facts[user_message], project_data)

\* what ollama.chat does with a prompt: it returns a response with this
\* content, or it raises an exception whose str() is `error`
Returns(content) == [ raised |-> FALSE, content |-> content ]
Raises(error) == [ raised |-> TRUE, error |-> error ]

\* str(e) of the exceptions ollama.chat raises
OllamaErrors == { "connection refused", "model not found" }

\* variant: a failed call returns the empty text
_call_ollama_enhanced_empty(completion) ==
    IF completion.raised THEN "" ELSE completion.content

\* _call_ollama_enhanced: the content of the response, or the fixed text with
\* the error appended
_call_ollama_enhanced(completion) ==
    IF completion.raised
    THEN "I encountered a technical issue. Please try again or rephrase your request. Error: "
         \o completion.error
    ELSE completion.content

\* the texts a turn gets when ollama.chat raises
FallbackTexts == { _call_ollama_enhanced(Raises(error)) : error \in OllamaErrors }

\* _has_substantial_content, computed once per (reply, agent) of the inputs
substance ==
    [ r \in Replies \cup FallbackTexts |->
        [ a \in Agents |-> _has_substantial_content(r, a) ] ]

\* _has_substantial_content, looked up where it was computed already
has_substance(response, agent_name) ==
    IF response \in DOMAIN substance /\ agent_name \in Agents
    THEN substance[response][agent_name]
    ELSE _has_substantial_content(response, agent_name)

\* _call_agent_enhanced: the reply of the completion service to the agent's
\* prompt, or the fixed text for a name that has no agent method
_call_agent_enhanced(agent_name, reply) ==
    IF agent_name \in Agents THEN reply
    ELSE "I'm not sure how to help with that. Could you clarify?"

(***************************************************************************)
(* State.                                                                  *)
(***************************************************************************)
VARIABLES
    projects,        \* LocalStorage: project id -> project document
    agent_progress,  \* Orchestrator.agent_progress: project id -> set of agents
    preview_ports,   \* ProjectBuilder.preview_ports: project id -> port
    preview_servers, \* the preview servers started and still running: project id, port
    planner_calls,   \* calls of IntegrationAgent.plan_project_structure so far
    file_calls,      \* calls of generate_file_content_with_context so far
    lastReq,         \* the inbound message handled last
    out,             \* the outbound messages it caused, in order
    route_result,    \* the dictionary route_message returned last
    call             \* a function applied on its own: its arguments and result

vars == << projects, agent_progress, preview_ports, preview_servers, planner_calls,
           file_calls, lastReq, out, route_result, call >>

\* the state of the server, as opposed to `call`
server_vars == << projects, agent_progress, preview_ports, preview_servers, planner_calls,
                  file_calls, lastReq, out, route_result >>

(***************************************************************************)
(* LocalStorage.                                                           *)
(***************************************************************************)
\* the document create_project writes
NewProjectData(name) ==
    [ name |-> name,
      status |-> "active",
      requirements |-> << >>,
      messages |-> << >>,
      generated_files |-> << >>,
      active_agent |-> "requirements_evolver" ]

\* dict assignment d[k] = v on a function
Put(d, k, v) == [ x \in DOMAIN d \cup {k} |-> IF x = k THEN v ELSE d[x] ]

\* add_message on a document
add_message(project_data, role, message) ==
    [ project_data EXCEPT
        !.messages = Append(@, [ role |-> role, agent |-> project_data.active_agent ]) ]

\* variant: a record already stored for the agent is kept
update_requirements_keeping(project_data, agent_name, requirements) ==
    IF agent_name \in DOMAIN project_data.requirements
    THEN project_data
    ELSE [ project_data EXCEPT !.requirements = Put(@, agent_name, requirements) ]

\* update_requirements on a document
update_requirements(project_data, agent_name, requirements) ==
    [ project_data EXCEPT !.requirements = Put(@, agent_name, requirements) ]

\* set_active_agent on a document
set_active_agent(project_data, agent_name) ==
    [ project_data EXCEPT !.active_agent = agent_name ]


(***************************************************************************)
(* Orchestrator.route_message.                                             *)
(***************************************************************************)
\* the record _extract_requirements_enhanced stores (the summary, technical
\* specs and timestamp, which no decision reads, are left out)
RequirementRecord(agent_name, response, user_message) ==
    [ full_response |-> response,
      user_message |-> user_message,
      agent |-> agent_name,
      has_substance |-> has_substance(response, agent_name) ]

\* variant: a record that was substantive stays so
_extract_requirements_latching(project_data, agent_name, response, user_message) ==
    LET record == RequirementRecord(agent_name, response, user_message)
        was == /\ agent_name \in DOMAIN project_data.requirements
               /\ project_data.requirements[agent_name].has_substance
    IN  update_requirements(project_data, agent_name,
                            [ record EXCEPT !.has_substance = @ \/ was ])

_extract_requirements_enhanced(project_data, agent_name, response, user_message) ==
    update_requirements(project_data, agent_name,
                        RequirementRecord(agent_name, response, user_message))

\* variant: the agent read before routing keeps answering
AnsweringAgentStale(current_agent, next_agent) == current_agent

\* variant: a turn asks for generation as soon as the gate allows it
ShouldGenerateWhenReady(project_data) == _has_minimal_requirements(project_data)

\* `should_generate = False`
ShouldGenerate(project_data) == FALSE

\* the agent that answers and under which the record is stored
AnsweringAgent(current_agent, next_agent) ==
    IF next_agent # current_agent THEN next_agent ELSE current_agent

\* route_message on the stored document: the document afterwards and the
\* dictionary returned; `reply` is what the completion service answers
route_message(project_data, user_message, reply) ==
    LET current_agent == project_data.active_agent
        next_agent == _determine_next_agent_enhanced(current_agent, user_message, project_data)
        switched == IF next_agent # current_agent
                    THEN set_active_agent(project_data, next_agent)
                    ELSE project_data
        answering == AnsweringAgent(current_agent, next_agent)
        agent_response == _call_agent_enhanced(answering, reply)
        updated == _extract_requirements_enhanced(switched, answering, agent_response,
                                                  user_message)
    IN  [ project_data |-> updated,
          result |-> [ message |-> agent_response, agent |-> answering,
                       should_generate |-> ShouldGenerate(updated) ] ]

(***************************************************************************)
(* Outbound messages.                                                      *)
(***************************************************************************)
AgentResponse(message, agent_name) ==
    [ type |-> "agent_response", message |-> message, agent |-> agent_name ]

GenerationStatus(project_id, status) ==
    [ type |-> "generation_status", project_id |-> project_id,
      can_generate |-> status.can_generate,
      substantial_agents |-> status.substantial_agents,
      agent_contributions |-> status.agent_contributions,
      message |-> status.message ]

NoResult == [ message |-> "", agent |-> "", should_generate |-> FALSE ]

NoCall == [ fn |-> "" ]

ErrorMessage(text) == [ type |-> "error", message |-> text ]

Request(type, project_id, message) ==
    [ type |-> type, project_id |-> project_id, message |-> message ]

(***************************************************************************)
(* AIDEServer handlers.                                                    *)
(***************************************************************************)
\* handle_new_project: create_project, project_created, start_conversation,
\* the welcome message
NewProject(p) ==
    /\ p \notin DOMAIN projects
    /\ projects' = Put(projects, p,
                       set_active_agent(NewProjectData("Todo App"), "requirements_evolver"))
    /\ agent_progress' = Put(agent_progress, p, {})
    /\ lastReq' = Request("new_project", p, "")
    /\ out' = << [ type |-> "project_created", project_id |-> p ],
                 AgentResponse("welcome", "requirements_evolver") >>
    /\ UNCHANGED << preview_ports, preview_servers, planner_calls, file_calls, route_result, call >>

\* handle_user_message for a stored project: what a turn does to the
\* documents and what it sends
Turn(p, m, reply) ==
    /\ p \in DOMAIN projects
    /\ LET stored == add_message(projects[p], "user", m)
           routed == route_message(stored, m, reply)
           final == add_message(routed.project_data, "agent", routed.result.message)
       IN  /\ projects' = Put(projects, p, final)
           /\ agent_progress' =
                  IF p \in DOMAIN agent_progress
                  THEN Put(agent_progress, p, agent_progress[p] \cup { routed.result.agent })
                  ELSE agent_progress
           /\ route_result' = routed.result
           /\ out' = << AgentResponse(routed.result.message, routed.result.agent),
                        GenerationStatus(p, can_generate_code(final)) >>
    /\ lastReq' = Request("user_message", p, m)
    /\ UNCHANGED << preview_ports, preview_servers, planner_calls, file_calls >>

\* handle_user_message for a stored project
UserMessage(p, m, reply) ==
    /\ p \in DOMAIN projects
    /\ Len(projects[p].messages) < 2 * MaxTurns
    /\ Turn(p, m, reply)
    /\ UNCHANGED call

\* handle_user_message for an id with no stored project: add_message raises
UserMessageNoProject(p, m) ==
    /\ p \notin DOMAIN projects
    /\ lastReq' = Request("user_message", p, m)
    /\ out' = << ErrorMessage("Failed to process message") >>
    /\ UNCHANGED << projects, agent_progress, preview_ports, preview_servers, planner_calls,
                    file_calls,
                    route_result, call >>

\* handle_check_generation_status
CheckGenerationStatus(p) ==
    /\ lastReq' = Request("check_generation_status", p, "")
    /\ out' = IF p \in DOMAIN projects
              THEN << GenerationStatus(p, can_generate_code(projects[p])) >>
              ELSE << ErrorMessage("Failed to check generation status") >>
    /\ UNCHANGED << projects, agent_progress, preview_ports, preview_servers, planner_calls,
                    file_calls,
                    route_result, call >>

(***************************************************************************)
(* IntegrationAgent: the structure planner.                                *)
(***************************************************************************)
\* the plan plan_project_structure falls back to
baseline_files ==
    << "app.py", "requirements.txt", "templates/index.html",
       "static/css/style.css", "static/js/app.js" >>

valid_extensions == << ".py", ".html", ".css", ".js", ".json", ".md", ".txt" >>

code_patterns == << "from ", "import ", "@app", "def ", "class ", "<!DOCTYPE", "// ", "/*" >>

code_chars == << "(", ")", "{", "}", "[", "]", "==", "=" >>

bad_chars == << "*", "?", "\"", "<", ">", "|" >>

MaxPathLen == 100

essential_files ==
    << "app.py", "requirements.txt", "templates/index.html",
       "static/css/style.css", "static/js/app.js" >>

\* variant: a canonical path is mapped to its bare name as well
_normalize_file_path_both_ways(file_path) ==
    CASE file_path = "style.css" -> "static/css/style.css"
      [] file_path = "app.js" -> "static/js/app.js"
      [] file_path = "index.html" -> "templates/index.html"
      [] file_path = "scripts.js" -> "static/js/app.js"
      [] file_path = "styles.css" -> "static/css/style.css"
      [] file_path = "templates/index.html" -> "index.html"
      [] OTHER -> file_path

\* path_mapping.get(file_path, file_path)
_normalize_file_path(file_path) ==
    CASE file_path = "style.css" -> "static/css/style.css"
      [] file_path = "app.js" -> "static/js/app.js"
      [] file_path = "index.html" -> "templates/index.html"
      [] file_path = "scripts.js" -> "static/js/app.js"
      [] file_path = "styles.css" -> "static/css/style.css"
      [] OTHER -> file_path

\* the values of conflict_groups, in the order of the dictionary
conflict_groups ==
    << << "index.html", "templates/index.html" >>,
       << "style.css", "static/css/style.css", "styles.css" >>,
       << "app.js", "static/js/app.js", "scripts.js" >> >>

\* the members of a conflict group under templates/ or static/, in order
Preferred(conflict_group) ==
    SelectSeq(conflict_group,
              LAMBDA f : StartsWith(f, "templates/") \/ StartsWith(f, "static/"))

RECURSIVE ResolveInto(_, _)
\* the loop of _resolve_file_conflicts over the rest of file_list
ResolveInto(resolved_files, file_list) ==
    IF Len(file_list) = 0 THEN resolved_files
    ELSE LET file_path == Head(file_list)
             groups == { g \in 1..Len(conflict_groups) : InList(file_path, conflict_groups[g]) }
             added ==
                 IF groups # {}
                 THEN LET preferred == Preferred(conflict_groups[Least(groups)])
                      IN  IF Len(preferred) > 0 /\ ~InList(preferred[1], resolved_files)
                          THEN Append(resolved_files, preferred[1])
                          ELSE resolved_files
                 ELSE IF ~InList(file_path, resolved_files)
                 THEN Append(resolved_files, file_path)
                 ELSE resolved_files
         IN  ResolveInto(added, Tail(file_list))

\* variant: the listed paths are kept as they are
_resolve_file_conflicts_none(file_list) == file_list

_resolve_file_conflicts(file_list) == ResolveInto(<< >>, file_list)

\* one line of the reply: the path it contributes, in a sequence, or << >>
PathOfLine(raw_line) ==
    LET line == Strip(raw_line)
        clean_path == Strip(BeforeFirst(BeforeFirst(line, "#"), "["))
    IN  IF Len(line) = 0 THEN << >>
        ELSE IF AnyIn(code_patterns, line) THEN << >>
        ELSE IF AnyIn(code_chars, line) THEN << >>
        ELSE IF StartsWith(line, "#") \/ Contains("://", line) \/ StartsWith(line, "//")
        THEN << >>
        ELSE IF /\ Len(clean_path) > 0
                /\ \/ AnyIn(valid_extensions, clean_path)
                   \/ Contains("/", clean_path) /\ Contains(".", AfterLast(clean_path, "/"))
                /\ Len(clean_path) < MaxPathLen
                /\ ~AnyIn(bad_chars, clean_path)
                /\ ~EndsWith(clean_path, "/")
        THEN << _normalize_file_path(clean_path) >>
        ELSE << >>

RECURSIVE PathsOfLines(_)
PathsOfLines(lines) ==
    IF Len(lines) = 0 THEN << >>
    ELSE PathOfLine(Head(lines)) \o PathsOfLines(Tail(lines))

RECURSIVE AppendMissing(_, _)
\* append every path of `files` that file_list does not hold yet
AppendMissing(file_list, files) ==
    IF Len(files) = 0 THEN file_list
    ELSE AppendMissing(IF InList(Head(files), file_list)
                       THEN file_list
                       ELSE Append(file_list, Head(files)),
                       Tail(files))

\* variant: the essential files are not added to the list
_extract_file_list_as_listed(response) ==
    _resolve_file_conflicts(PathsOfLines(Split(Strip(response), "\n")))

_extract_file_list_deduplicated(response) ==
    AppendMissing(_resolve_file_conflicts(PathsOfLines(Split(Strip(response), "\n"))),
                  essential_files)

\* what the completion service does with the planning prompt
PlanningFails == [ ok |-> FALSE, content |-> "" ]

PlanningReply(content) == [ ok |-> TRUE, content |-> content ]

\* plan_project_structure; `reply` is the outcome of the completion call
plan_project_structure(reply) ==
    IF reply.ok THEN _extract_file_list_deduplicated(reply.content) ELSE baseline_files

(***************************************************************************)
(* IntegrationAgent: the file generator.                                   *)
(***************************************************************************)
RECURSIVE DropLetters(_)
\* the rest of s after its leading letters
DropLetters(s) ==
    IF Len(s) > 0 /\ IsLetter(CharAt(s, 1)) THEN DropLetters(SubSeq(s, 2, Len(s))) ELSE s

\* the rest of s after one leading newline, if there is one
DropNewline(s) == IF StartsWith(s, "\n") THEN SubSeq(s, 2, Len(s)) ELSE s

\* the code fence of three backquotes; a string of this module cannot hold
\* a backquote, so the character ^ stands for it in every reply
fence == "^^^"

RECURSIVE RemoveFences(_)
\* re.sub of a fence, the letters after it and one newline, ignoring case;
\* the re.sub of a bare fence that follows finds nothing left to remove
RemoveFences(s) ==
    IF Len(s) = 0 THEN ""
    ELSE IF StartsWith(s, fence)
    THEN RemoveFences(DropNewline(DropLetters(SubSeq(s, Len(fence) + 1, Len(s)))))
    ELSE CharAt(s, 1) \o RemoveFences(SubSeq(s, 2, Len(s)))

explanation_openings == << "this is", "here is", "the following", "sure,", "certainly," >>

MinCodeLen == 10

\* the line is one of the explanation lines skipped before the code starts
IsExplanation(stripped) ==
    /\ \E i \in 1..Len(explanation_openings) :
           StartsWith(Lower(stripped), explanation_openings[i])
    /\ ~Contains("{", stripped)
    /\ ~Contains("<", stripped)
    /\ ~Contains("import", stripped)

RECURSIVE CodeLines(_, _)
\* the loop of _extract_pure_code_enhanced over the rest of the lines
CodeLines(lines, found_code_start) ==
    IF Len(lines) = 0 THEN << >>
    ELSE LET line == Head(lines)
             stripped == Strip(line)
         IN  IF Len(stripped) = 0 THEN CodeLines(Tail(lines), found_code_start)
             ELSE IF ~found_code_start /\ IsExplanation(stripped)
             THEN CodeLines(Tail(lines), FALSE)
             ELSE << line >> \o CodeLines(Tail(lines), TRUE)

_extract_pure_code_enhanced(raw_response) ==
    IF Len(raw_response) = 0 THEN ""
    ELSE LET result == Strip(JoinWith("\n", CodeLines(Split(RemoveFences(raw_response), "\n"),
                                                      FALSE)))
         IN  IF Len(result) < MinCodeLen THEN Strip(raw_response) ELSE result

css_punctuation == << ":", ";", "#", "." >>

css_words == << "color", "font", "margin", "padding", "width", "height" >>

python_indicators == << "import ", "def ", "class ", "from ", "print(", "return " >>

requirements_chars == << "=", ">", "<", "\n" >>

frameworks == << "import react", "from react", "vue", "angular" >>

AgentMinLen == 15

\* IntegrationAgent._is_valid_python_content_trusted
AgentValidPython(content, file_path) ==
    IF file_path = "app.py"
    THEN \/ Contains("flask", Lower(content))
         \/ Contains("@app", content)
         \/ Contains("render_template", content)
         \/ Contains("from flask", content)
         \/ Len(Strip(content)) > 100
    ELSE IF file_path = "requirements.txt"
    THEN AnyIn(requirements_chars, content) /\ Len(Strip(content)) > 5
    ELSE AnyIn(python_indicators, content) \/ Len(Strip(content)) > 50

\* IntegrationAgent._is_valid_html_content_trusted
AgentValidHtml(content) ==
    /\ \/ AnyIn(<< "<!doctype", "<html", "<head", "<body" >>, Lower(content))
       \/ AnyIn(<< "<div", "<p>", "<h1", "<form" >>, content)
    /\ Contains("<", content)
    /\ Contains(">", content)

\* IntegrationAgent._is_valid_css_content_trusted
AgentValidCss(content) ==
    LET clean_content == Strip(content)
        has_any_css ==
            \/ Contains("{", clean_content) /\ Contains("}", clean_content)
            \/ AnyIn(css_punctuation, clean_content)
            \/ AnyIn(css_words, Lower(clean_content))
        balanced_braces == Count("{", clean_content) = Count("}", clean_content)
    IN  /\ Len(clean_content) >= 10
        /\ has_any_css \/ (balanced_braces /\ Len(clean_content) > 25)

\* IntegrationAgent._is_valid_javascript_content_trusted
AgentValidJavascript(content) ==
    /\ \/ AnyIn(<< "function", "const ", "let ", "document.", "fetch" >>, content)
       \/ AnyIn(<< "addeventlistener", "getelementbyid", "api" >>, Lower(content))
       \/ Len(Strip(content)) > 50
    /\ ~AnyIn(frameworks, Lower(content))

_is_valid_file_content_trusted(content, file_path) ==
    IF Len(Strip(content)) < AgentMinLen THEN FALSE
    ELSE IF EndsWith(file_path, ".py") THEN AgentValidPython(content, file_path)
    ELSE IF EndsWith(file_path, ".html") THEN AgentValidHtml(content)
    ELSE IF EndsWith(file_path, ".css") THEN AgentValidCss(content)
    ELSE IF EndsWith(file_path, ".js") THEN AgentValidJavascript(content)
    ELSE IF EndsWith(file_path, ".txt") \/ EndsWith(file_path, ".md")
    THEN Len(Strip(content)) > 5
    ELSE Len(Strip(content)) > 10

\* what the completion service does with the prompt of one file
CompletionFails(error) == [ ok |-> FALSE, content |-> error ]

CompletionReply(content) == [ ok |-> TRUE, content |-> content ]

\* the placeholder returned when the completion call raises
Placeholder(file_path, error) ==
    "# Error generating " \o file_path \o ". Please try again.\n# " \o error

\* generate_file_content_with_context; `completion` is the outcome of the
\* completion call made with the prompt built from existing_files
generate_file_content_with_context(file_path, existing_files, completion) ==
    IF completion.ok
    THEN _extract_pure_code_enhanced(completion.content)
    ELSE Placeholder(file_path, completion.content)

(***************************************************************************)
(* ProjectBuilder: generation run and preview binding.                     *)
(***************************************************************************)
BuilderMinLen == 5

\* ProjectBuilder._is_valid_python_content_trusted
BuilderValidPython(content, file_path) ==
    IF file_path = "app.py"
    THEN \/ Contains("flask", Lower(content))
         \/ AnyIn(<< "@app.route", "render_template", "from flask", "import flask" >>, content)
    ELSE IF file_path = "requirements.txt"
    THEN Len(Strip(content)) > 5 /\ AnyIn(requirements_chars, content)
    ELSE AnyIn(python_indicators, content) \/ Len(Strip(content)) > 50

\* ProjectBuilder._is_valid_html_content_trusted
BuilderValidHtml(content) ==
    /\ \/ AnyIn(<< "<!doctype", "<html", "<head", "<body" >>, Lower(content))
       \/ AnyIn(<< "<div", "<p>", "<h1" >>, content)
    /\ Contains("<", content)
    /\ Contains(">", content)

\* ProjectBuilder._is_valid_css_content_trusted; a match of either regular
\* expression of css_indicators needs one of the characters ':' ';' '#' '.',
\* so the two add nothing to the indicator before them
BuilderValidCss(content) ==
    LET clean_content == Strip(content)
        has_any_css ==
            \/ Contains("{", clean_content) /\ Contains("}", clean_content)
            \/ AnyIn(css_punctuation, clean_content)
            \/ AnyIn(css_words, Lower(clean_content))
        balanced_braces == Count("{", clean_content) = Count("}", clean_content)
    IN  /\ Len(clean_content) >= 10
        /\ has_any_css \/ (balanced_braces /\ Len(clean_content) > 20)

\* ProjectBuilder._is_valid_javascript_content_trusted
BuilderValidJavascript(content) ==
    /\ \/ AnyIn(<< "function", "const ", "let ", "document." >>, content)
       \/ AnyIn(<< "addeventlistener", "getelementbyid", "queryselector" >>, Lower(content))
       \/ Len(Strip(content)) > 50
    /\ ~AnyIn(frameworks, Lower(content))

_is_valid_generated_content_trusted(content, file_path) ==
    IF Len(Strip(content)) < BuilderMinLen THEN FALSE
    ELSE IF EndsWith(file_path, ".py") THEN BuilderValidPython(content, file_path)
    ELSE IF EndsWith(file_path, ".html") THEN BuilderValidHtml(content)
    ELSE IF EndsWith(file_path, ".css") THEN BuilderValidCss(content)
    ELSE IF EndsWith(file_path, ".js") THEN BuilderValidJavascript(content)
    ELSE IF EndsWith(file_path, ".txt") \/ EndsWith(file_path, ".md")
    THEN Len(Strip(content)) > 3
    ELSE Len(Strip(content)) > 5

PreviewLen == 500

\* existing_files_context: path and content[:500] of every record so far
ExistingFilesContext(generated_files) ==
    [ i \in 1..Len(generated_files) |->
        [ path |-> generated_files[i].path,
          content_preview |-> Slice(generated_files[i].content, PreviewLen) ] ]

\* what happens to one planned file: the outcome of its completion call and
\* whether creating and writing the file succeeds
FileOutcome(completion, write_ok) == [ completion |-> completion, write_ok |-> write_ok ]

\* variant: a file whose content fails the builder's validation is skipped
KeepsRecordOnlyIfValid(content, file_path, write_ok) ==
    write_ok /\ _is_valid_generated_content_trusted(content, file_path)

\* the body of the loop reaches generated_files.append: nothing raised
KeepsRecord(content, file_path, write_ok) == write_ok

\* variant: the run goes on from the records stored by earlier runs
InitialRecordsStored(project_data) ==
    [ i \in 1..Len(project_data.generated_files) |->
        [ path |-> project_data.generated_files[i].path,
          content |-> project_data.generated_files[i].content,
          size |-> project_data.generated_files[i].size ] ]

\* `generated_files = []` at the start of a run
InitialRecords(project_data) == << >>

\* variant: the loop ends at the first file whose completion call failed
RemainingUntilFailure(file_structure, completion) ==
    IF completion.ok THEN Tail(file_structure) ELSE << >>

\* the files the loop goes on with after one file, whatever became of it
Remaining(file_structure, completion) == Tail(file_structure)

RECURSIVE GenerateFiles(_, _, _, _)
\* the loop of generate_project over the rest of the plan: the records
\* returned and, for each file attempted, what was handed to the completion
\* call, what came back, the two validation warnings and whether the file
\* was written
GenerateFiles(generated_files, attempts, file_structure, outcomes) ==
    IF Len(file_structure) = 0
    THEN [ generated_files |-> generated_files, attempts |-> attempts ]
    ELSE LET file_path == Head(file_structure)
             outcome == Head(outcomes)
             existing_files == ExistingFilesContext(generated_files)
             content == generate_file_content_with_context(file_path, existing_files,
                                                           outcome.completion)
             kept == KeepsRecord(content, file_path, outcome.write_ok)
             attempt ==
                 [ file_path |-> file_path,
                   existing_files |-> existing_files,
                   completion |-> outcome.completion,
                   content |-> content,
                   agent_warning |-> outcome.completion.ok
                                     /\ ~_is_valid_file_content_trusted(content, file_path),
                   builder_warning |-> ~_is_valid_generated_content_trusted(content, file_path),
                   written |-> outcome.write_ok ]
             file_data == [ path |-> file_path, content |-> content, size |-> Len(content) ]
         IN  GenerateFiles(IF kept THEN Append(generated_files, file_data)
                                   ELSE generated_files,
                           Append(attempts, attempt),
                           Remaining(file_structure, outcome.completion), Tail(outcomes))

\* generate_project once the directory is clean: the plan is generated file
\* by file; outcomes[k] is what happens to the k-th planned file
generate_project(project_data, file_structure, outcomes) ==
    GenerateFiles(InitialRecords(project_data), << >>, file_structure, outcomes)

\* a reply of the completion service that holds the file asked for
GoodReply(file_path) ==
    CASE file_path = "app.py" ->
             "^^^python\nfrom flask import Flask\napp = Flask(__name__)\n^^^"
      [] file_path = "requirements.txt" -> "Here is the file:\nFlask==3.0.0"
      [] EndsWith(file_path, ".html") -> "<html><body><h1>Tasks</h1></body></html>"
      [] EndsWith(file_path, ".css") -> "body { color: #333; margin: 0; }"
      [] EndsWith(file_path, ".js") -> "const tasks = [];\nfunction add(t) { tasks.push(t); }"
      [] OTHER -> "# Notes\nRun the app with flask run."

\* a reply that fails every validation
PoorReply == "TODO"

OutcomeKinds == { "generated", "poor", "completion_fails", "write_fails" }

\* what may happen to a planned file
OutcomeOf(file_path, kind) ==
    CASE kind = "generated" -> FileOutcome(CompletionReply(GoodReply(file_path)), TRUE)
      [] kind = "poor" -> FileOutcome(CompletionReply(PoorReply), TRUE)
      [] kind = "completion_fails" -> FileOutcome(CompletionFails("connection refused"), TRUE)
      [] kind = "write_fails" -> FileOutcome(CompletionReply(GoodReply(file_path)), FALSE)

Generated(file_path) == OutcomeOf(file_path, "generated")

\* every file of the plan is generated, but for the k-th, if there is one
OutcomesBut(file_structure, k, outcome) ==
    [ i \in 1..Len(file_structure) |->
        IF i = k THEN outcome ELSE Generated(file_structure[i]) ]

\* the generation runs of the server: what the planner is answered and what
\* happens to each planned file
ServerRuns ==
    { [ reply |-> PlanningFails,
        outcomes |-> OutcomesBut(baseline_files, 0, Generated("")) ],
      [ reply |-> PlanningReply("README.md"),
        outcomes |-> OutcomesBut(plan_project_structure(PlanningReply("README.md")), 3,
                                 FileOutcome(CompletionFails("connection refused"), TRUE)) ],
      [ reply |-> PlanningFails,
        outcomes |-> OutcomesBut(baseline_files, 2,
                                 FileOutcome(CompletionReply(PoorReply), FALSE)) ] }

\* the preview of the content that add_generated_file stores
StoredPreview(content) ==
    IF Len(content) > PreviewLen THEN Slice(content, PreviewLen) \o "..." ELSE content

\* add_generated_file for every returned record, in order
add_generated_files(project_data, generated_files) ==
    [ project_data EXCEPT
        !.generated_files =
            @ \o [ i \in 1..Len(generated_files) |->
                     [ path |-> generated_files[i].path,
                       content |-> StoredPreview(generated_files[i].content),
                       size |-> Len(generated_files[i].content) ] ] ]

preview_port_range == << 3001, 3010 >>

\* range(8000, 9000), tried when the configured range gives no port
fallback_port_range == << 8000, 8999 >>

ConfiguredPorts == preview_port_range[1]..preview_port_range[2]

FallbackPorts == fallback_port_range[1]..fallback_port_range[2]

\* the ports the system hands out for a bind to port 0
EphemeralPorts == { 49152, 49153 }

\* what the host contributes to one start of a preview server: the ports
\* held by other processes, the port the system would hand out for port 0,
\* and how the started server fares: it answers within the readiness wait,
\* or it runs without answering in time, or it has exited
ForeignListeners == { "none", "configured range", "both ranges" }

\* the ports held by other processes
HeldByOthers(host) ==
    CASE host.foreign = "none" -> {}
      [] host.foreign = "configured range" -> ConfiguredPorts
      [] host.foreign = "both ranges" -> ConfiguredPorts \cup FallbackPorts

StartOutcomes == { "ready", "slow", "exited" }

Host(foreign, os_port, start) == [ foreign |-> foreign, os_port |-> os_port, start |-> start ]

Hosts ==
    { Host(foreign, os_port, start) :
          foreign \in ForeignListeners, os_port \in EphemeralPorts, start \in StartOutcomes }

\* a host no other process listens on, whose servers answer in time or exit
QuietHosts == { Host("none", Min(EphemeralPorts), start) : start \in { "ready", "exited" } }

AssignedPorts == { preview_ports[q] : q \in DOMAIN preview_ports }

\* the ports a preview server of the builder listens on
ListeningPorts == { server.port : server \in preview_servers }

\* is_port_available: the bind succeeds
is_port_available(port, host) == port \notin HeldByOthers(host) /\ port \notin ListeningPorts

\* the last resort of _get_available_port: a bind to port 0 and the port the
\* system chose for it, whatever the table holds; 0 stands for the bind raising
LastResortPort(host) ==
    IF is_port_available(host.os_port, host) THEN host.os_port ELSE 0

\* variant: the loop tests only whether the port can be bound
FirstPortBindable(first, last, host) ==
    LET taken == Cardinality(AssignedPorts \cup ListeningPorts)
        free == { port \in first..Min({ last, first + taken }) : is_port_available(port, host) }
    IN  IF free = {} THEN 0 ELSE Min(free)

\* `for port in range(first, last + 1)`: the first port that is not in the
\* table and can be bound; 0 when the loop ends without one. Other processes
\* hold a range wholly or not at all (ForeignListeners), so the loop is
\* decided within its first ports, one more than the table and the servers
\* together can take: if none of these passes, no port of the range does
FirstPort(first, last, host) ==
    LET taken == Cardinality(AssignedPorts \cup ListeningPorts)
        free == { port \in first..Min({ last, first + taken }) :
                      port \notin AssignedPorts /\ is_port_available(port, host) }
    IN  IF free = {} THEN 0 ELSE Min(free)

\* _get_available_port: the first port of the configured range, else of the
\* fallback range, that is not in the table and can be bound; else the port
\* the system chooses
_get_available_port(host) ==
    LET configured == FirstPort(preview_port_range[1], preview_port_range[2], host)
        fallback == FirstPort(fallback_port_range[1], fallback_port_range[2], host)
    IN  IF configured # 0 THEN configured
        ELSE IF fallback # 0 THEN fallback
        ELSE LastResortPort(host)

NoUrl == [ host |-> "", port |-> 0 ]

PreviewUrl(port) == [ host |-> "localhost", port |-> port ]

\* _start_preview_server: the port returned (0 when no server is ready), the
\* servers listening afterwards and the process that was spawned, if one was.
\* A process that is "starting" has not bound its port when the readiness
\* wait is over
_start_preview_server(project_id, host) ==
    LET port == _get_available_port(host)
    IN  IF port = 0 \/ project_id \notin DOMAIN projects
        THEN [ port |-> 0, preview_servers |-> preview_servers, process |-> << >> ]
        ELSE [ port |-> IF host.start = "ready" THEN port ELSE 0,
               preview_servers |->
                   IF host.start \in { "exited", "starting" } THEN preview_servers
                   ELSE preview_servers \cup { [ project_id |-> project_id, port |-> port ] },
               process |-> << [ project_id |-> project_id, port |-> port ] >> ]

\* variant: a bound project whose server no longer runs is started again
get_preview_url_restarting(project_id, host) ==
    IF project_id \in DOMAIN preview_ports
       /\ \E server \in preview_servers : server.project_id = project_id
    THEN [ preview_ports |-> preview_ports,
           preview_servers |-> preview_servers,
           process |-> << >>,
           url |-> PreviewUrl(preview_ports[project_id]) ]
    ELSE LET started == _start_preview_server(project_id, host)
         IN  IF started.port # 0
             THEN [ preview_ports |-> Put(preview_ports, project_id, started.port),
                    preview_servers |-> started.preview_servers,
                    process |-> started.process,
                    url |-> PreviewUrl(started.port) ]
             ELSE [ preview_ports |-> preview_ports,
                    preview_servers |-> started.preview_servers,
                    process |-> started.process,
                    url |-> NoUrl ]

\* variant: the port of a start that was not ready is entered in the table
get_preview_url_binding_failed(project_id, host) ==
    IF project_id \in DOMAIN preview_ports
    THEN [ preview_ports |-> preview_ports,
           preview_servers |-> preview_servers,
           process |-> << >>,
           url |-> PreviewUrl(preview_ports[project_id]) ]
    ELSE LET started == _start_preview_server(project_id, host)
         IN  [ preview_ports |-> IF started.process # << >>
                                 THEN Put(preview_ports, project_id, started.process[1].port)
                                 ELSE preview_ports,
               preview_servers |-> started.preview_servers,
               process |-> started.process,
               url |-> IF started.port # 0 THEN PreviewUrl(started.port) ELSE NoUrl ]

\* get_preview_url: the table and the servers afterwards, the process spawned
\* and the URL returned
get_preview_url(project_id, host) ==
    IF project_id \in DOMAIN preview_ports
    THEN [ preview_ports |-> preview_ports,
           preview_servers |-> preview_servers,
           process |-> << >>,
           url |-> PreviewUrl(preview_ports[project_id]) ]
    ELSE LET started == _start_preview_server(project_id, host)
         IN  IF started.port # 0
             THEN [ preview_ports |-> Put(preview_ports, project_id, started.port),
                    preview_servers |-> started.preview_servers,
                    process |-> started.process,
                    url |-> PreviewUrl(started.port) ]
             ELSE [ preview_ports |-> preview_ports,
                    preview_servers |-> started.preview_servers,
                    process |-> started.process,
                    url |-> NoUrl ]

\* the subprocess of a preview server ends: process.wait() returns and the
\* serving thread with it
PreviewServerExits(server) ==
    /\ server \in preview_servers
    /\ preview_servers' = preview_servers \ { server }
    /\ UNCHANGED << projects, agent_progress, preview_ports, planner_calls, file_calls,
                    lastReq, out, route_result, call >>

\* variant: the handler does not consult the gate
GateAlwaysAllows(project_data) == TRUE

\* the test `generation_status['can_generate']` of handle_generate_code
GateAllows(project_data) == can_generate_code(project_data).can_generate

\* handle_get_preview: what it does to the table and the servers and what it
\* sends
Preview(p, host) ==
    /\ LET got == get_preview_url(p, host)
       IN  /\ Cardinality(got.preview_servers) <= MaxServers
           /\ preview_ports' = got.preview_ports
           /\ preview_servers' = got.preview_servers
           /\ out' = << [ type |-> "preview_url", preview_url |-> got.url ] >>
    /\ lastReq' = Request("get_preview", p, "")
    /\ UNCHANGED << projects, agent_progress, planner_calls, file_calls, route_result >>

\* handle_get_preview
GetPreview(p, host) == Preview(p, host) /\ UNCHANGED call

\* handle_generate_code, the readiness gate refusing the request
GenerateCodeRefused(p) ==
    /\ p \in DOMAIN projects
    /\ ~GateAllows(projects[p])
    /\ lastReq' = Request("generate_code", p, "")
    /\ out' = << [ type |-> "generation_failed", project_id |-> p,
                   error |-> "Insufficient requirements",
                   message |-> can_generate_code(projects[p]).message ] >>
    /\ UNCHANGED << projects, agent_progress, preview_ports, preview_servers, planner_calls,
                    file_calls,
                    route_result, call >>

\* handle_generate_code for an id with no stored project: can_generate_code raises
GenerateCodeNoProject(p) ==
    /\ p \notin DOMAIN projects
    /\ lastReq' = Request("generate_code", p, "")
    /\ out' = << ErrorMessage("Failed to generate code") >>
    /\ UNCHANGED << projects, agent_progress, preview_ports, preview_servers, planner_calls,
                    file_calls,
                    route_result, call >>

\* variant: the except clause of generate_project_code sends the plain error only
GenerateCodeCleanFailsPlainError(p) ==
    /\ p \in DOMAIN projects
    /\ GateAllows(projects[p])
    /\ lastReq' = Request("generate_code", p, "")
    /\ out' = << [ type |-> "generation_started", project_id |-> p ],
                 ErrorMessage("Failed to generate code") >>
    /\ UNCHANGED << projects, agent_progress, preview_ports, preview_servers, planner_calls,
                    file_calls,
                    route_result, call >>

\* handle_generate_code past the gate, _clean_project_directory failing on
\* its last attempt: generate_project raises before the planner is called
GenerateCodeCleanFails(p) ==
    /\ p \in DOMAIN projects
    /\ GateAllows(projects[p])
    /\ lastReq' = Request("generate_code", p, "")
    /\ out' = << [ type |-> "generation_started", project_id |-> p ],
                 [ type |-> "code_generation_error", project_id |-> p ],
                 ErrorMessage("Failed to generate code") >>
    /\ UNCHANGED << projects, agent_progress, preview_ports, preview_servers, planner_calls,
                    file_calls,
                    route_result, call >>

\* plan_project_structure and the loop of generate_project for one run
PlanAndGenerate(project_data, reply, outcomes) ==
    LET file_structure == plan_project_structure(reply)
    IN  [ file_structure |-> file_structure,
          run |-> IF Len(outcomes) = Len(file_structure)
                  THEN generate_project(project_data, file_structure, outcomes)
                  ELSE generate_project(project_data, << >>, << >>) ]

\* PlanAndGenerate for the runs of ServerRuns, computed once
server_runs ==
    [ r \in ServerRuns |-> PlanAndGenerate(NewProjectData("Todo App"), r.reply, r.outcomes) ]

\* the run of generate_project_code on the stored document; a run reads of
\* the document only what a new document holds too
Generation(project_data, reply, outcomes) ==
    IF /\ [ reply |-> reply, outcomes |-> outcomes ] \in ServerRuns
       /\ InitialRecords(project_data) = InitialRecords(NewProjectData("Todo App"))
    THEN server_runs[[ reply |-> reply, outcomes |-> outcomes ]]
    ELSE PlanAndGenerate(project_data, reply, outcomes)

\* generate_project_code once _clean_project_directory has returned: the
\* planner, the files, the records, the preview, the two messages
RunAfterClean(p, reply, outcomes, host) ==
    /\ p \in DOMAIN projects
    /\ GateAllows(projects[p])
    /\ Len(outcomes) = Len(Generation(projects[p], reply, outcomes).file_structure)
    /\ LET run == Generation(projects[p], reply, outcomes).run
           got == get_preview_url(p, host)
       IN  /\ Cardinality(got.preview_servers) <= MaxServers
           /\ projects' = Put(projects, p,
                              add_generated_files(projects[p], run.generated_files))
           /\ preview_ports' = got.preview_ports
           /\ preview_servers' = got.preview_servers
           /\ out' = << [ type |-> "generation_started", project_id |-> p ],
                        [ type |-> "code_generated", project_id |-> p,
                          files |-> run.generated_files,
                          preview_url |-> got.url,
                          file_count |-> Len(run.generated_files) ] >>
           /\ file_calls' = file_calls + Len(run.attempts)
    /\ planner_calls' = planner_calls + 1
    /\ lastReq' = Request("generate_code", p, "")
    /\ UNCHANGED << agent_progress, route_result >>

\* handle_generate_code past the gate: generate_project_code runs
GenerateCode(p, reply, outcomes, host) ==
    /\ RunAfterClean(p, reply, outcomes, host)
    /\ UNCHANGED call

\* ping
Ping ==
    /\ lastReq' = Request("ping", "", "")
    /\ out' = << [ type |-> "pong" ] >>
    /\ UNCHANGED << projects, agent_progress, preview_ports, preview_servers, planner_calls,
                    file_calls,
                    route_result, call >>

(***************************************************************************)
(* The server: one request handled at a time.                              *)
(***************************************************************************)
ServerInit ==
    /\ projects = << >>
    /\ agent_progress = << >>
    /\ preview_ports = << >>
    /\ preview_servers = {}
    /\ planner_calls = 0
    /\ file_calls = 0
    /\ lastReq = Request("", "", "")
    /\ out = << >>
    /\ route_result = NoResult

Init ==
    /\ ServerInit
    /\ call = NoCall

Next ==
    \/ \E p \in ProjectIds : NewProject(p)
    \/ \E p \in ProjectIds, m \in UserMessages, reply \in Replies : UserMessage(p, m, reply)
    \/ \E p \in ProjectIds, m \in UserMessages : UserMessageNoProject(p, m)
    \/ \E p \in ProjectIds : CheckGenerationStatus(p)
    \/ \E p \in ProjectIds, host \in QuietHosts : GetPreview(p, host)
    \/ \E p \in ProjectIds : GenerateCodeRefused(p)
    \/ \E p \in ProjectIds : GenerateCodeNoProject(p)
    \/ planner_calls < MaxRuns /\ \E p \in ProjectIds : GenerateCodeCleanFails(p)
    \/ /\ planner_calls < MaxRuns
       /\ \E p \in ProjectIds, run \in ServerRuns, host \in QuietHosts :
              GenerateCode(p, run.reply, run.outcomes, host)
    \/ Ping

Spec == Init /\ [][Next]_vars

(***************************************************************************)
(* The routing decision applied on its own, to every message of            *)
(* RouteMessages and every document the router can be handed on the first  *)
(* or the second turn of a conversation.                                   *)
(***************************************************************************)
\* the stored document after one whole turn of handle_user_message
TurnDocument(project_data, m, reply) ==
    LET routed == route_message(add_message(project_data, "user", m), m, reply)
    IN  add_message(routed.project_data, "agent", routed.result.message)

\* the documents route_message reads on a first and on a second turn
RouteDocuments ==
    LET fresh == NewProjectData("Todo App")
    IN  { add_message(fresh, "user", "") }
        \cup { add_message(TurnDocument(fresh, m, reply), "user", "") :
               m \in UserMessages \cup { "react", "data" }, reply \in Replies }

RouteInit ==
    /\ ServerInit
    /\ call \in { [ fn |-> "_determine_next_agent_enhanced",
                    current_agent |-> d.active_agent,
                    user_message |-> m,
                    project_data |-> d,
                    done |-> FALSE ] : d \in RouteDocuments, m \in RouteMessages }

Call_determine_next_agent_enhanced ==
    /\ call.fn = "_determine_next_agent_enhanced"
    /\ ~call.done
    /\ call' = [ fn |-> call.fn,
                 current_agent |-> call.current_agent,
                 user_message |-> call.user_message,
                 project_data |-> call.project_data,
                 done |-> TRUE,
                 result |-> _determine_next_agent_enhanced(call.current_agent,
                                                           call.user_message,
                                                           call.project_data) ]
    /\ UNCHANGED server_vars

RouteNext == Call_determine_next_agent_enhanced

RouteSpec == RouteInit /\ [][RouteNext]_vars

(***************************************************************************)
(* The readiness gate applied on its own, to every ledger in which each    *)
(* agent has no record, a record of a clarifying question or a record of   *)
(* a technical statement.                                                  *)
(***************************************************************************)
GateReplies ==
    { "What would you like the app to do?",
      "Use a REST api backend, a database schema, javascript components and cloud hosting." }

Ledgers ==
    UNION { { [ a \in S |-> RequirementRecord(a, choice[a], "I want a todo app") ] :
              choice \in [ S -> GateReplies ] } : S \in SUBSET Agents }

GateInit ==
    /\ ServerInit
    /\ call \in { [ fn |-> "can_generate_code",
                    project_data |->
                        [ NewProjectData("Todo App") EXCEPT !.requirements = ledger ],
                    done |-> FALSE ] : ledger \in Ledgers }

Call_can_generate_code ==
    /\ call.fn = "can_generate_code"
    /\ ~call.done
    /\ call' = [ fn |-> call.fn,
                 project_data |-> call.project_data,
                 done |-> TRUE,
                 result |-> can_generate_code(call.project_data) ]
    /\ UNCHANGED server_vars

GateNext == Call_can_generate_code

GateSpec == GateInit /\ [][GateNext]_vars

(***************************************************************************)
(* The write of a requirement record applied on its own, to replies whose  *)
(* lengths lie on both sides of every threshold of the classifier.         *)
(***************************************************************************)
ClassifyReplies ==
    { "",
      "Sure.",
      "A list of all tasks",
      "A list of all tasks.",
      "   A list of tasks.    ",
      "Tasks grouped by their owner.",
      "Tasks grouped by their owners.",
      "  Tasks grouped by the owner. ",
      "What would you like the app to do?",
      "WHAT WOULD you like the app to do?",
      "Which colours do you prefer for it?",
      "Can you describe it. It has three screens.",
      "Please provide the list of screens, the roles of the users and the colours, ok?",
      "Please provide the list of screens, the roles of the users and also the colours?",
      "Plain javascript, nothing else at all..",
      "Plain javascript, nothing else at all...",
      "One Database table of tasks and of owners.",
      "A json REST service with two routes for it.",
      "Deployment to one small cloud virtual machine.",
      "It will be written with care and tested well." }

\* ledgers already stored when the record is written
ClassifyDocuments ==
    LET fresh == NewProjectData("Todo App")
    IN  { fresh,
          TurnDocument(fresh, "UI and UX", "The app tracks tasks for small teams."),
          TurnDocument(fresh, "data", "What would you like the app to do?") }

ClassifyInit ==
    /\ ServerInit
    /\ call \in { [ fn |-> "_extract_requirements_enhanced",
                    project_data |-> d,
                    agent_name |-> a,
                    response |-> r,
                    user_message |-> "I want a todo app",
                    done |-> FALSE ] :
                  d \in ClassifyDocuments, a \in Agents, r \in ClassifyReplies }

Call_extract_requirements_enhanced ==
    /\ call.fn = "_extract_requirements_enhanced"
    /\ ~call.done
    /\ call' = [ fn |-> call.fn,
                 project_data |-> call.project_data,
                 agent_name |-> call.agent_name,
                 response |-> call.response,
                 user_message |-> call.user_message,
                 done |-> TRUE,
                 result |-> _extract_requirements_enhanced(call.project_data,
                                                           call.agent_name,
                                                           call.response,
                                                           call.user_message) ]
    /\ UNCHANGED server_vars

ClassifyNext == Call_extract_requirements_enhanced

ClassifySpec == ClassifyInit /\ [][ClassifyNext]_vars

(***************************************************************************)
(* The structure planner applied on its own, to a failing completion call  *)
(* and to replies of up to MaxPlanLines lines.                             *)
(***************************************************************************)
MaxPlanLines == 3

\* the aliases and the canonical paths of the conflict groups
AliasLines ==
    { "index.html", "templates/index.html",
      "style.css", "styles.css", "static/css/style.css",
      "app.js", "scripts.js", "static/js/app.js" }

\* other lines a reply may hold
OtherLines ==
    { "app.py", "  README.md ", "models.py  # data models", "static/img/logo.png",
      "- style.css", "Here is the file list:", "from flask import Flask",
      "routes.py (main)", "# Files", "templates/", "https://example.com/app.py", "" }

RECURSIVE JoinLines(_)
\* "\n".join(lines)
JoinLines(lines) ==
    IF Len(lines) = 0 THEN ""
    ELSE IF Len(lines) = 1 THEN lines[1]
    ELSE lines[1] \o "\n" \o JoinLines(Tail(lines))

\* replies of up to two lines of any kind, and of up to MaxPlanLines lines
\* that name aliases and canonical paths
PlanContents ==
    { JoinLines(lines) :
        lines \in UNION { [ 1..n -> AliasLines \cup OtherLines ] : n \in 0..2 } }
    \cup { JoinLines(lines) :
             lines \in UNION { [ 1..n -> AliasLines ] : n \in 3..MaxPlanLines } }

PlanReplies == { PlanningFails } \cup { PlanningReply(content) : content \in PlanContents }

PlanInit ==
    /\ ServerInit
    /\ call \in { [ fn |-> "plan_project_structure", reply |-> reply, done |-> FALSE ] :
                  reply \in PlanReplies }

Call_plan_project_structure ==
    /\ call.fn = "plan_project_structure"
    /\ ~call.done
    /\ call' = [ fn |-> call.fn,
                 reply |-> call.reply,
                 done |-> TRUE,
                 result |-> plan_project_structure(call.reply) ]
    /\ UNCHANGED server_vars

PlanNext == Call_plan_project_structure

PlanSpec == PlanInit /\ [][PlanNext]_vars

(***************************************************************************)
(* The file generator applied on its own, to every combination of file     *)
(* outcomes over the baseline plan and over a plan of RunFiles files.      *)
(***************************************************************************)
RunFiles == 3

BuildPlans ==
    { baseline_files, SubSeq(<< "README.md" >> \o baseline_files, 1, RunFiles) }

\* the documents a run is handed: one never generated and one that holds
\* the records of an earlier run
BuildDocuments ==
    LET fresh == NewProjectData("Todo App")
        earlier == generate_project(fresh, baseline_files,
                                    OutcomesBut(baseline_files, 0, Generated("")))
    IN  { fresh, add_generated_files(fresh, earlier.generated_files) }

BuildInit ==
    /\ ServerInit
    /\ call \in UNION { { [ fn |-> "generate_project",
                            project_data |-> d,
                            file_structure |-> plan,
                            outcomes |-> [ i \in 1..Len(plan) |-> OutcomeOf(plan[i], kinds[i]) ],
                            done |-> FALSE ] :
                          kinds \in [ 1..Len(plan) -> OutcomeKinds ], d \in BuildDocuments } :
                        plan \in BuildPlans }

Call_generate_project ==
    /\ call.fn = "generate_project"
    /\ ~call.done
    /\ call' = [ fn |-> call.fn,
                 project_data |-> call.project_data,
                 file_structure |-> call.file_structure,
                 outcomes |-> call.outcomes,
                 done |-> TRUE,
                 result |-> generate_project(call.project_data, call.file_structure,
                                             call.outcomes) ]
    /\ UNCHANGED server_vars

BuildNext == Call_generate_project

BuildSpec == BuildInit /\ [][BuildNext]_vars

(***************************************************************************)
(* The server with several projects asking for previews and generation:    *)
(* each project's conversation is one substantive turn.                    *)
(***************************************************************************)
PreviewProjects == { "p1", "p2" }

\* the hosts of these runs: a server started answers in time or has exited
PreviewHosts == { host \in Hosts : host.start # "slow" }

PreviewNext ==
    \/ \E p \in PreviewProjects : NewProject(p)
    \/ \E p \in PreviewProjects :
           UserMessage(p, "I want a todo app", "The app tracks tasks for small teams.")
    \/ \E p \in PreviewProjects, host \in PreviewHosts : GetPreview(p, host)
    \/ /\ planner_calls < MaxProjectRuns
       /\ \E p \in PreviewProjects, host \in PreviewHosts :
              GenerateCode(p, PlanningFails, OutcomesBut(baseline_files, 0, Generated("")),
                           host)
    \/ \E p \in PreviewProjects, port \in ConfiguredPorts \cup FallbackPorts \cup EphemeralPorts :
           PreviewServerExits([ project_id |-> p, port |-> port ])

PreviewSpec == Init /\ [][PreviewNext]_vars

\* the preview requests alone, on every host: the tables and servers that
\* get_preview requests, answered, unanswered and failed starts and exits of
\* servers lead to
\* the hosts of these runs: on a host no other process listens on, a server
\* may also run without answering in time
AllocHosts == PreviewHosts \cup { Host("none", Min(EphemeralPorts), "slow") }

AllocNext ==
    \/ \E p \in PreviewProjects : NewProject(p)
    \/ \E p \in PreviewProjects, host \in AllocHosts : GetPreview(p, host)
    \/ \E p \in PreviewProjects, port \in ConfiguredPorts \cup FallbackPorts \cup EphemeralPorts :
           PreviewServerExits([ project_id |-> p, port |-> port ])

AllocSpec == Init /\ [][AllocNext]_vars

\* ---------------------------------------------------------------------------
\* The processes that preview requests spawn (subprocess.Popen or the
\* SimpleHTTP server in serve_preview), from the spawn to the bind and the exit
\* ---------------------------------------------------------------------------

\* preview requests in a run
MaxRequests == 3

\* the hosts of these runs: the fallback range is free, so that the allocation
\* always finds a port; a process spawned answers in time, or listens without
\* answering in time, or has exited, or has not bound its port yet when the
\* readiness wait is over
SpawnHosts ==
    { Host(foreign, Min(EphemeralPorts), start) :
          foreign \in { "none", "configured range" },
          start \in StartOutcomes \cup { "starting" } }

SpawnInit ==
    /\ ServerInit
    /\ call = [ fn |-> "serve_preview", requests |-> 0, spawns |-> 0, starting |-> {} ]

\* handle_get_preview; the request and the process it spawned are counted,
\* and a process that has not bound its port is kept as starting
SpawnPreview(p, host) ==
    /\ call.requests < MaxRequests
    /\ Preview(p, host)
    /\ LET process == get_preview_url(p, host).process
           pid == call.spawns + 1
       IN  call' = [ call EXCEPT
                       !.requests = @ + 1,
                       !.spawns = IF process # << >> THEN pid ELSE @,
                       !.starting =
                           IF process # << >> /\ host.start = "starting"
                           THEN @ \cup { [ pid |-> pid, project_id |-> p,
                                           port |-> process[1].port ] }
                           ELSE @ ]

\* a starting process binds its port and listens, or finds the port taken by
\* a server that bound it first and ends (serve_preview prints the error)
ProcessBinds(process) ==
    /\ process \in call.starting
    /\ preview_servers' =
           IF process.port \in ListeningPorts THEN preview_servers
           ELSE preview_servers \cup { [ project_id |-> process.project_id,
                                         port |-> process.port ] }
    /\ call' = [ call EXCEPT !.starting = @ \ { process } ]
    /\ UNCHANGED << projects, agent_progress, preview_ports, planner_calls, file_calls,
                    lastReq, out, route_result >>

\* a starting process ends before it has bound its port
ProcessExits(process) ==
    /\ process \in call.starting
    /\ call' = [ call EXCEPT !.starting = @ \ { process } ]
    /\ UNCHANGED server_vars

SpawnNext ==
    \/ \E p \in PreviewProjects : NewProject(p)
    \/ \E p \in PreviewProjects, host \in SpawnHosts : SpawnPreview(p, host)
    \/ \E process \in call.starting : ProcessBinds(process)
    \/ \E process \in call.starting : ProcessExits(process)
    \/ \E p \in PreviewProjects, port \in ConfiguredPorts \cup FallbackPorts :
           PreviewServerExits([ project_id |-> p, port |-> port ])

SpawnSpec == SpawnInit /\ [][SpawnNext]_vars

\* ---------------------------------------------------------------------------
\* The start of a preview server, probe by probe
\* (_start_preview_server, _wait_for_server_ready, get_preview_url)
\* ---------------------------------------------------------------------------

\* max_attempts of _wait_for_server_ready
max_attempts == 15

\* what one probe (requests.get with a timeout) can come back with: a status
\* code, a refused connection, a timeout, any other exception
ProbeResponses == { "200", "404", "403", "500", "ConnectionError", "Timeout", "Exception" }

\* variant: any answer of the server counts as ready
ProbeSucceedsAnyStatus(response) == response \in { "200", "404", "403", "500" }

\* the two status codes the loop returns True for
ProbeSucceeds(response) == response \in { "200", "404" }

\* one pass of the loop of _wait_for_server_ready
WaitStep(wait, response) ==
    [ wait EXCEPT !.attempt = @ + 1,
                  !.last = response,
                  !.successes = @ + (IF response \in { "200", "404" } THEN 1 ELSE 0),
                  !.result = IF ProbeSucceeds(response) THEN "READY"
                             ELSE IF wait.attempt + 1 >= max_attempts THEN "FAILED"
                             ELSE "WAITING" ]

\* get_preview_url for a project without a binding, up to the first probe:
\* a port is chosen, the server thread is started
BeginStart(p, host) ==
    LET port == _get_available_port(host)
    IN  /\ call = NoCall
        /\ p \in DOMAIN projects
        /\ p \notin DOMAIN preview_ports
        /\ port # 0
        /\ Cardinality(preview_servers) < MaxServers
        /\ preview_servers' = preview_servers \cup { [ project_id |-> p, port |-> port ] }
        /\ call' = [ fn |-> "_wait_for_server_ready", project_id |-> p, port |-> port,
                     attempt |-> 0, last |-> "", successes |-> 0, result |-> "WAITING" ]
        /\ lastReq' = Request("get_preview", p, "")
        /\ out' = << >>
        /\ UNCHANGED << projects, agent_progress, preview_ports, planner_calls, file_calls,
                        route_result >>

\* one probe and the loop's reaction to it
Probe(response) ==
    /\ call.fn = "_wait_for_server_ready"
    /\ call.result = "WAITING"
    /\ call' = WaitStep(call, response)
    /\ UNCHANGED server_vars

\* the rest of get_preview_url and of handle_get_preview once the wait is over
FinishStart ==
    /\ call.fn = "_wait_for_server_ready"
    /\ call.result # "WAITING"
    /\ preview_ports' = IF call.result = "READY"
                        THEN Put(preview_ports, call.project_id, call.port)
                        ELSE preview_ports
    /\ out' = << [ type |-> "preview_url",
                   preview_url |-> IF call.result = "READY" THEN PreviewUrl(call.port)
                                   ELSE NoUrl ] >>
    /\ call' = NoCall
    /\ UNCHANGED << projects, agent_progress, preview_servers, planner_calls, file_calls,
                    lastReq, route_result >>

WaitNext ==
    \/ call = NoCall /\ \E p \in PreviewProjects : NewProject(p)
    \/ \E p \in PreviewProjects, host \in QuietHosts : BeginStart(p, host)
    \/ \E response \in ProbeResponses : Probe(response)
    \/ FinishStart
    \/ \E p \in PreviewProjects, port \in ConfiguredPorts :
           PreviewServerExits([ project_id |-> p, port |-> port ])

WaitSpec == Init /\ [][WaitNext]_vars

\* ---------------------------------------------------------------------------
\* A generation run, attempt by attempt of _clean_project_directory
\* ---------------------------------------------------------------------------

\* range(3) of _clean_project_directory
clean_attempts == 3

\* variant: the failure of the last attempt is printed and the run goes on
CleanStepSwallowing(clean, removed) ==
    [ clean EXCEPT !.attempt = @ + 1,
                   !.failures = @ + (IF removed THEN 0 ELSE 1),
                   !.result = IF removed \/ clean.attempt + 1 >= clean_attempts
                              THEN "CLEANED" ELSE "CLEANING" ]

\* one pass of the loop of _clean_project_directory: rmtree removed the
\* directory or raised
CleanStep(clean, removed) ==
    [ clean EXCEPT !.attempt = @ + 1,
                   !.failures = @ + (IF removed THEN 0 ELSE 1),
                   !.result = IF removed THEN "CLEANED"
                              ELSE IF clean.attempt + 1 >= clean_attempts THEN "RAISED"
                              ELSE "CLEANING" ]

\* handle_generate_code past the gate, up to the first rmtree: the source
\* directory of a stored project exists (create_project and every run make it)
BeginRun(p) ==
    /\ call = NoCall
    /\ p \in DOMAIN projects
    /\ GateAllows(projects[p])
    /\ call' = [ fn |-> "_clean_project_directory", project_id |-> p, attempt |-> 0,
                 failures |-> 0, result |-> "CLEANING" ]
    /\ lastReq' = Request("generate_code", p, "")
    /\ out' = << [ type |-> "generation_started", project_id |-> p ] >>
    /\ UNCHANGED << projects, agent_progress, preview_ports, preview_servers, planner_calls,
                    file_calls, route_result >>

\* one rmtree
CleanAttempt(removed) ==
    /\ call.fn = "_clean_project_directory"
    /\ call.result = "CLEANING"
    /\ call' = CleanStep(call, removed)
    /\ UNCHANGED server_vars

\* the directory is gone: the run goes on to the planner
RunProceeds(reply, outcomes, host) ==
    /\ call.fn = "_clean_project_directory"
    /\ call.result = "CLEANED"
    /\ RunAfterClean(call.project_id, reply, outcomes, host)
    /\ call' = NoCall

\* the last rmtree raised: the handler of generate_project_code reports it
RunAborts ==
    /\ call.fn = "_clean_project_directory"
    /\ call.result = "RAISED"
    /\ out' = << [ type |-> "generation_started", project_id |-> call.project_id ],
                 [ type |-> "code_generation_error", project_id |-> call.project_id ],
                 ErrorMessage("Failed to generate code") >>
    /\ call' = NoCall
    /\ UNCHANGED << projects, agent_progress, preview_ports, preview_servers, planner_calls,
                    file_calls, lastReq, route_result >>

CleanNext ==
    \/ call = NoCall /\ \E p \in PreviewProjects : NewProject(p)
    \/ /\ call = NoCall
       /\ \E p \in PreviewProjects :
              UserMessage(p, "I want a todo app", "The app tracks tasks for small teams.")
    \/ planner_calls < MaxProjectRuns /\ \E p \in PreviewProjects : BeginRun(p)
    \/ \E removed \in BOOLEAN : CleanAttempt(removed)
    \/ \E run \in ServerRuns, host \in QuietHosts : RunProceeds(run.reply, run.outcomes, host)
    \/ RunAborts

CleanSpec == Init /\ [][CleanNext]_vars

\* ---------------------------------------------------------------------------
\* Sessions: handle_connection, process_message, process_request
\* ---------------------------------------------------------------------------

Sessions == { "s1", "s2" }

\* inbound messages per session
MaxInbound == 2

\* what arrives: two known kinds, text that is not JSON, JSON that is not an
\* object (process_request fails on data.get), an object of no known kind
Payloads == { "user_message", "ping", "not JSON", "not an object", "unknown kind" }

\* the second session only chats
SessionPayloads(session) == IF session = "s1" THEN Payloads ELSE { "user_message" }

Sent(type, message) == [ type |-> type, message |-> message ]

\* variant: process_message without its `except Exception`
process_message_unguarded(payload) ==
    CASE payload = "not JSON" ->
             [ sends |-> << Sent("error", "Invalid JSON format") >>, raised |-> FALSE ]
      [] payload = "not an object" -> [ sends |-> << >>, raised |-> TRUE ]
      [] payload = "unknown kind" ->
             [ sends |-> << Sent("error", "Unknown message type") >>, raised |-> FALSE ]
      [] payload = "ping" -> [ sends |-> << Sent("pong", "pong") >>, raised |-> FALSE ]
      [] OTHER -> [ sends |-> << Sent("agent_response", ""), Sent("generation_status", "") >>,
                    raised |-> FALSE ]

\* process_message: what is sent for one inbound message, in order, and
\* whether an exception leaves it
process_message(payload) ==
    CASE payload = "not JSON" ->
             [ sends |-> << Sent("error", "Invalid JSON format") >>, raised |-> FALSE ]
      [] payload = "not an object" ->
             [ sends |-> << Sent("error", "Processing error") >>, raised |-> FALSE ]
      [] payload = "unknown kind" ->
             [ sends |-> << Sent("error", "Unknown message type") >>, raised |-> FALSE ]
      [] payload = "ping" -> [ sends |-> << Sent("pong", "pong") >>, raised |-> FALSE ]
      [] OTHER -> [ sends |-> << Sent("agent_response", ""), Sent("generation_status", "") >>,
                    raised |-> FALSE ]

\* variant: each message is handed to a task of its own
MayTakeWithoutAwait(session) == TRUE

\* `await self.process_message(...)` in the loop of handle_connection: the
\* next message is taken when the one before has been processed
MayTake(session) == session.active = {}

NewSession ==
    [ connected |-> TRUE, closed_by |-> "", received |-> << >>, taken |-> 0, active |-> {} ]

SessionInit ==
    /\ ServerInit
    /\ call = [ fn |-> "handle_connection",
                sessions |-> [ s \in Sessions |-> NewSession ],
                log |-> << >> ]

WithSession(s, session) == [ call EXCEPT !.sessions[s] = session ]

\* a message arrives on the connection
Arrive(s, payload) ==
    LET session == call.sessions[s]
    IN  /\ session.connected
        /\ Len(session.received) < MaxInbound
        /\ call' = WithSession(s, [ session EXCEPT !.received = Append(@, payload) ])
        /\ UNCHANGED server_vars

\* `async for message in websocket`: the next message is taken
Take(s) ==
    LET session == call.sessions[s]
    IN  /\ session.connected
        /\ session.taken < Len(session.received)
        /\ MayTake(session)
        /\ call' = WithSession(s, [ session EXCEPT
                        !.taken = @ + 1,
                        !.active = @ \cup { [ request |-> session.taken + 1, sent |-> 0 ] } ])
        /\ UNCHANGED server_vars

\* the processing of request n goes on up to its next send; an exception that
\* leaves process_message ends the loop of handle_connection
Advance(s, n) ==
    LET session == call.sessions[s]
    IN  /\ session.connected
        /\ \E a \in session.active :
             /\ a.request = n
             /\ LET pm == process_message(session.received[n])
                    rest == session.active \ {a}
                IN  IF a.sent >= Len(pm.sends)
                    THEN call' = WithSession(s, [ session EXCEPT
                                     !.connected = ~pm.raised,
                                     !.closed_by = IF pm.raised THEN "server" ELSE @,
                                     !.active = IF pm.raised THEN {} ELSE rest ])
                    ELSE call' = [ WithSession(s, [ session EXCEPT
                                     !.active = rest \cup { [ a EXCEPT !.sent = @ + 1 ] } ])
                                   EXCEPT !.log = Append(@, [ session |-> s, request |-> n,
                                                              send |-> pm.sends[a.sent + 1] ]) ]
        /\ UNCHANGED server_vars

\* the transport closes the connection
Disconnect(s) ==
    LET session == call.sessions[s]
    IN  /\ session.connected
        /\ call' = WithSession(s, [ session EXCEPT !.connected = FALSE,
                                                   !.closed_by = "transport",
                                                   !.active = {} ])
        /\ UNCHANGED server_vars

SessionNext ==
    \/ \E s \in Sessions, payload \in Payloads :
           payload \in SessionPayloads(s) /\ Arrive(s, payload)
    \/ \E s \in Sessions : Take(s)
    \/ \E s \in Sessions, n \in 1..MaxInbound : Advance(s, n)
    \/ \E s \in Sessions : Disconnect(s)

SessionSpec == SessionInit /\ [][SessionNext]_vars

\* ---------------------------------------------------------------------------
\* new_project requests that fail
\* (handle_new_project, create_project, cleanup_project)
\* ---------------------------------------------------------------------------

\* the steps of handle_new_project at which an exception can be raised
CreationSteps ==
    { "write document", "create directories", "send project_created", "start_conversation" }

\* is the project id known to handle_new_project when the step fails:
\* create_project returns it only when both of its steps are done
IdAssigned(step) == step \in { "send project_created", "start_conversation" }

\* the documents after create_project failed at the step or was followed by
\* a failing step, and after the except clause of handle_new_project
AfterFailedCreation(p, step) ==
    CASE step = "write document" -> projects
      [] IdAssigned(step) -> projects
      [] OTHER -> Put(projects, p, NewProjectData("Todo App"))

\* handle_new_project, an exception raised at the step
NewProjectFails(p, step) ==
    /\ p \notin DOMAIN projects
    /\ projects' = AfterFailedCreation(p, step)
    /\ lastReq' = Request("new_project", p, "")
    /\ out' = IF step = "start_conversation"
              THEN << [ type |-> "project_created", project_id |-> p ],
                      ErrorMessage("Failed to create project") >>
              ELSE << ErrorMessage("Failed to create project") >>
    /\ UNCHANGED << agent_progress, preview_ports, preview_servers, planner_calls, file_calls,
                    route_result, call >>

CreateNext ==
    \/ \E p \in PreviewProjects : NewProject(p)
    \/ \E p \in PreviewProjects, step \in CreationSteps : NewProjectFails(p, step)
    \/ \E p \in PreviewProjects, m \in { "I want a todo app", "hello" } :
           p \in DOMAIN agent_progress
           /\ UserMessage(p, m, "The app tracks tasks for small teams.")

CreateSpec == Init /\ [][CreateNext]_vars

\* ---------------------------------------------------------------------------
\* One conversation and the generation_status messages it is sent
\* ---------------------------------------------------------------------------

\* turns of the conversation
ConvTurns == 3

\* a message that names no role, one with a keyword of the UI role, one with
\* a keyword of the API role
ConvMessages == { "I want a todo app", "UI and UX", "Put it on a server" }

\* a question, and a statement that is substantive for every role
ConvReplies ==
    { "What would you like the app to do?",
      "Use a REST api backend, a database schema, javascript components and cloud hosting." }

ConvInit ==
    /\ ServerInit
    /\ call = [ fn |-> "handle_user_message", can_generate |-> << >>, raised |-> << >> ]

\* a turn; the can_generate of the generation_status it sends is noted
ConvTurn(p, m, reply) ==
    /\ p \in DOMAIN projects
    /\ Len(projects[p].messages) < 2 * ConvTurns
    /\ Turn(p, m, _call_ollama_enhanced(Returns(reply)))
    /\ call' = [ call EXCEPT !.can_generate = Append(@, out'[2].can_generate),
                              !.raised = Append(@, FALSE) ]

\* a turn in which ollama.chat raises
ConvTurnFails(p, m, error) ==
    /\ p \in DOMAIN projects
    /\ Len(projects[p].messages) < 2 * ConvTurns
    /\ Turn(p, m, _call_ollama_enhanced(Raises(error)))
    /\ call' = [ call EXCEPT !.can_generate = Append(@, out'[2].can_generate),
                              !.raised = Append(@, TRUE) ]

ConvNext ==
    \/ NewProject("p1") /\ UNCHANGED call
    \/ \E m \in ConvMessages, reply \in ConvReplies : ConvTurn("p1", m, reply)
    \/ \E m \in ConvMessages, error \in OllamaErrors : ConvTurnFails("p1", m, error)

ConvSpec == ConvInit /\ [][ConvNext]_vars

(***************************************************************************)
(* Properties.                                                             *)
(***************************************************************************)
\* the agents of a ledger whose record is substantive
Substantive(requirements) ==
    { a \in Agents : a \in DOMAIN requirements /\ requirements[a].has_substance }

\* the lowercased text of a message contains the phrase
Mentions(user_message, phrase) == Contains(phrase, Lower(user_message))

\* the messages of RouteMessages that contain an approval phrase
approval_mentions ==
    { m \in RouteMessages : \E phrase \in ApprovalPhrases : Mentions(m, phrase) }

MentionsApproval(user_message) ==
    IF user_message \in RouteMessages
    THEN user_message \in approval_mentions
    ELSE \E phrase \in ApprovalPhrases : Mentions(user_message, phrase)

\* the keywords of an agent in the router's table
KeywordsOf(agent_name) ==
    UNION { { agent_keywords[i].keywords[j] : j \in 1..Len(agent_keywords[i].keywords) } :
            i \in { x \in 1..Len(agent_keywords) : agent_keywords[x].agent = agent_name } }

\* for each message of RouteMessages, the agents one of whose keywords it contains
keyword_mentions ==
    [ m \in RouteMessages |->
        { a \in Agents : \E k \in KeywordsOf(a) : Mentions(m, k) } ]

\* the agents one of whose keywords the message contains
MentionedAgents(user_message) ==
    IF user_message \in RouteMessages
    THEN keyword_mentions[user_message]
    ELSE { a \in Agents : \E k \in KeywordsOf(a) : Mentions(user_message, k) }

MentionsAgent(user_message, agent_name) ==
    agent_name \in MentionedAgents(user_message)

\* the order in which the router's keyword table lists the agents
keyword_table_order ==
    << "ui_designer", "ux_architect", "data_architect", "api_designer",
       "frontend_engineer", "devops" >>

TablePosition(agent_name) ==
    CHOOSE i \in 1..Len(keyword_table_order) : keyword_table_order[i] = agent_name

\* the agents the approval override applies to
OverrideSources == { "requirements_evolver", "ux_architect", "ui_designer" }

OverrideApplies(current_agent, user_message) ==
    MentionsApproval(user_message) /\ current_agent \in OverrideSources

\* a call of the routing decision has returned
Routed == call.fn = "_determine_next_agent_enhanced" /\ call.done

\* a call of the readiness gate has returned
Gated == call.fn = "can_generate_code" /\ call.done

\* this step is a completed user turn of project p
TurnOf(p) ==
    /\ p \in DOMAIN projects
    /\ lastReq' = Request("user_message", p, lastReq'.message)
    /\ Len(projects'[p].messages) = Len(projects[p].messages) + 2

\* the types of the outbound messages of the last request
OutTypes(o) == { o[i].type : i \in 1..Len(o) }

----------------------------------------------------------------------------
\* C1: for every ledger, can_generate_code reports can_generate =
\* (substantive roles >= 2) or (requirements role substantive and substantive
\* roles >= 1) or (substantive roles >= 3); so no substantive role gives
\* false, the requirements role plus another gives true, any three give true.
C1_GateFormula ==
    Gated =>
        LET requirements == call.project_data.requirements
            n == Cardinality(Substantive(requirements))
            requirements_role == "requirements_evolver" \in Substantive(requirements)
        IN  /\ call.result.can_generate <=>
                   (n >= 2 \/ (requirements_role /\ n >= 1) \/ n >= 3)
            /\ n = 0 => ~call.result.can_generate
            /\ (requirements_role /\ n >= 2) => call.result.can_generate
            /\ n >= 3 => call.result.can_generate
            /\ call.result.substantial_agents = n

C1_Witness ==
    /\ Gated
    /\ Cardinality(Substantive(call.project_data.requirements)) = 3
    /\ "requirements_evolver" \notin Substantive(call.project_data.requirements)
    /\ call.result.can_generate

\* C2: whenever the requirements role is the only role with a substantive
\* record, the status sent to the client has can_generate false.
C2_RequirementsAloneCannotGenerate ==
    \A i \in 1..Len(out) :
        (out[i].type = "generation_status"
         /\ out[i].agent_contributions = { "requirements_evolver" })
        => ~out[i].can_generate

\* C3: a generate-code request for a project whose can_generate is false
\* is answered by generation_failed ("Insufficient requirements") alone, and
\* calls neither planner nor file generator and changes no project document,
\* generated file or preview binding.
C3_RefusedGenerateChangesNothing ==
    [][ \A p \in DOMAIN projects :
          (/\ lastReq' = Request("generate_code", p, "")
           /\ ~can_generate_code(projects[p]).can_generate)
          => /\ Len(out') = 1
             /\ out'[1].type = "generation_failed"
             /\ out'[1].error = "Insufficient requirements"
             /\ planner_calls' = planner_calls
             /\ file_calls' = file_calls
             /\ projects' = projects
             /\ preview_ports' = preview_ports ]_vars

C3_Witness ==
    /\ lastReq.type = "generate_code"
    /\ lastReq.project_id \in DOMAIN projects
    /\ Len(projects[lastReq.project_id].messages) = 2
    /\ OutTypes(out) = { "generation_failed" }

\* C4: a user-message turn never calls the planner or the file generator,
\* never adds a generated file and never sends generation_started or
\* code_generated; its result carries should_generate = FALSE; the planner
\* and the file generator are called only while generate-code is handled.
C4_TurnsNeverGenerate ==
    [][ /\ lastReq'.type = "user_message"
           => /\ planner_calls' = planner_calls
              /\ file_calls' = file_calls
              /\ \A p \in DOMAIN projects :
                    projects'[p].generated_files = projects[p].generated_files
              /\ OutTypes(out') \cap { "generation_started", "code_generated" } = {}
              /\ route_result'.should_generate = FALSE
        /\ (planner_calls' # planner_calls \/ file_calls' # file_calls)
           => lastReq'.type = "generate_code" ]_vars

C4_Witness ==
    /\ lastReq.type = "user_message"
    /\ Len(out) = 2
    /\ out[2].type = "generation_status"
    /\ out[2].can_generate
    /\ out[2].substantial_agents = 2
    /\ route_result.should_generate = FALSE
    /\ planner_calls = 0

\* C5: the stored active_agent of every project is one of the seven roles
\* of the chain.
C5_ActiveAgentInChain ==
    \A p \in DOMAIN projects : projects[p].active_agent \in Agents

C5_Witness ==
    \E p \in DOMAIN projects :
        /\ Len(projects[p].messages) = 4
        /\ projects[p].messages[2].agent = "api_designer"
        /\ projects[p].active_agent = "devops"

\* C6 as claimed: a message that contains a keyword of a role and no
\* approval phrase is routed to that role, whatever the current role.
C6_KeywordRoutesToItsRole ==
    Routed =>
        \A a \in Agents :
            (MentionsAgent(call.user_message, a) /\ ~MentionsApproval(call.user_message))
            => call.result = a

\* C6 amended: ... and no keyword of a role that the keyword table lists
\* before that role ...
C6_KeywordRoutesUnlessEarlierRole ==
    Routed =>
        \A a \in Agents :
            (/\ MentionsAgent(call.user_message, a)
             /\ ~MentionsApproval(call.user_message)
             /\ \A b \in MentionedAgents(call.user_message) :
                    TablePosition(a) <= TablePosition(b))
            => call.result = a

C6_Witness ==
    /\ Routed
    /\ call.user_message = "production"
    /\ call.current_agent = "ux_architect"
    /\ call.result = "devops"

\* C7 as claimed: of the roles whose keywords a message contains (no
\* approval override applying), the router selects the one that comes first
\* in the chain.
C7_FirstInChainOrder ==
    Routed =>
        LET mentioned == MentionedAgents(call.user_message)
        IN  (Cardinality(mentioned) >= 2
             /\ ~OverrideApplies(call.current_agent, call.user_message))
            => /\ call.result \in mentioned
               /\ \A b \in mentioned : ChainIndex(call.result) <= ChainIndex(b)

\* C7 amended: ... the one that comes first in the keyword table's order
\* (UI, UX, data, API, frontend, deployment).
C7_FirstInTableOrder ==
    Routed =>
        LET mentioned == MentionedAgents(call.user_message)
        IN  (Cardinality(mentioned) >= 2
             /\ ~OverrideApplies(call.current_agent, call.user_message))
            => /\ call.result \in mentioned
               /\ \A b \in mentioned : TablePosition(call.result) <= TablePosition(b)

C7_Witness ==
    /\ Routed
    /\ call.user_message = "ux ui"
    /\ call.current_agent = "data_architect"
    /\ call.result = "ui_designer"

\* the successor of an agent in the chain
Successor(agent_name) == agent_chain[ChainIndex(agent_name) + 1]

IsLast(agent_name) == agent_name = agent_chain[Len(agent_chain)]

\* what the progress rule gives: the successor if the current role is not
\* the last one and has a substantive record or at least `count` >= 2 stored
\* messages, else the current role
ProgressOutcome(current_agent, requirements, count) ==
    IF ~IsLast(current_agent) /\ (current_agent \in Substantive(requirements) \/ count >= 2)
    THEN Successor(current_agent)
    ELSE current_agent

\* C8: a message with an approval phrase moves requirements -> UX,
\* UX -> frontend and UI -> frontend even if it contains another role's
\* keyword; from any other current role the decision is that of the keyword
\* rule and, no keyword matching, of the progress rule.
C8_ApprovalOverrideFirst ==
    Routed =>
        LET mentioned == MentionedAgents(call.user_message)
            requirements == call.project_data.requirements
            count == MessageCount(call.project_data.messages, call.current_agent)
        IN  MentionsApproval(call.user_message) =>
                /\ call.current_agent = "requirements_evolver" => call.result = "ux_architect"
                /\ call.current_agent = "ux_architect" => call.result = "frontend_engineer"
                /\ call.current_agent = "ui_designer" => call.result = "frontend_engineer"
                /\ (call.current_agent \notin OverrideSources /\ mentioned # {})
                   => /\ call.result \in mentioned
                      /\ \A b \in mentioned : TablePosition(call.result) <= TablePosition(b)
                /\ (call.current_agent \notin OverrideSources /\ mentioned = {})
                   => call.result = ProgressOutcome(call.current_agent, requirements, count)

C8_Witness ==
    /\ Routed
    /\ call.user_message = "approved data"
    /\ call.current_agent = "ux_architect"
    /\ call.result = "frontend_engineer"

\* C9: on a turn whose message matches neither an approval override nor a
\* keyword, the active role becomes its successor if and only if it is not
\* the last role and it has a substantive record or at least 2 stored
\* messages are attributed to it when the router decides (the turn's user
\* message is stored first); otherwise the active role is unchanged.
C9_ProgressAdvance ==
    [][ \A p \in DOMAIN projects :
          LET current_agent == projects[p].active_agent
              count == MessageCount(projects[p].messages, current_agent) + 1
          IN  (/\ TurnOf(p)
               /\ ~OverrideApplies(current_agent, lastReq'.message)
               /\ MentionedAgents(lastReq'.message) = {})
              => /\ projects'[p].active_agent =
                        ProgressOutcome(current_agent, projects[p].requirements, count)
                 /\ IsLast(current_agent) => projects'[p].active_agent = current_agent ]_vars

C9_Witness ==
    \E p \in DOMAIN projects :
        /\ lastReq = Request("user_message", p, "I want a todo app")
        /\ Len(projects[p].messages) = 4
        /\ projects[p].messages[3].agent = "requirements_evolver"
        /\ ~projects[p].requirements["requirements_evolver"].has_substance
        /\ projects[p].active_agent = "ux_architect"

\* C10: after every completed user turn the stored active_agent, the agent
\* named in the agent_response and the ledger key under which the turn's
\* record (this turn's reply and user message) was written are the same
\* role, and no other key of the ledger was written.
C10_AnsweringRoleAgrees ==
    [][ \A p \in DOMAIN projects :
          TurnOf(p) =>
            LET active == projects'[p].active_agent
                ledger == projects'[p].requirements
            IN  /\ out'[1].type = "agent_response"
                /\ out'[1].agent = active
                /\ active \in DOMAIN ledger
                /\ ledger[active].agent = active
                /\ ledger[active].full_response = out'[1].message
                /\ ledger[active].user_message = lastReq'.message
                /\ DOMAIN ledger = DOMAIN projects[p].requirements \cup { active }
                /\ \A a \in DOMAIN ledger \ { active } :
                       ledger[a] = projects[p].requirements[a] ]_vars

C10_Witness ==
    \E p \in DOMAIN projects :
        /\ lastReq = Request("user_message", p, "Deploy to the cloud")
        /\ Len(projects[p].messages) = 4
        /\ projects[p].messages[3].agent = "api_designer"
        /\ projects[p].active_agent = "devops"
        /\ out[1].agent = "devops"
        /\ DOMAIN projects[p].requirements = { "api_designer", "devops" }

\* C11: a turn answered by a role replaces that role's record by one built
\* from this turn's reply and user message alone (nothing of the role's
\* previous record is kept), leaves the record of every other role as it
\* was, and the ledger holds one record per role, keyed by a role of the chain.
C11_RecordReplaced ==
    [][ \A p \in DOMAIN projects :
          TurnOf(p) =>
            LET answering == out'[1].agent
                ledger == projects'[p].requirements
            IN  /\ answering \in DOMAIN ledger
                /\ ledger[answering] =
                       [ full_response |-> out'[1].message,
                         user_message |-> lastReq'.message,
                         agent |-> answering,
                         has_substance |->
                             has_substance(out'[1].message, answering) ]
                /\ \A a \in DOMAIN projects[p].requirements \ { answering } :
                       a \in DOMAIN ledger /\ ledger[a] = projects[p].requirements[a]
                /\ DOMAIN ledger \subseteq Agents
                /\ DOMAIN ledger = DOMAIN projects[p].requirements \cup { answering } ]_vars

\* the ui designer answered twice: the record of its first turn has been
\* replaced by the question it asked on the second, and the record the
\* requirements role never had is still absent
C11_Witness ==
    \E p \in DOMAIN projects :
        /\ Len(projects[p].messages) = 4
        /\ projects[p].messages[2].agent = "ui_designer"
        /\ projects[p].messages[4].agent = "ui_designer"
        /\ lastReq = Request("user_message", p, "UI and UX")
        /\ DOMAIN projects[p].requirements = { "ui_designer" }
        /\ projects[p].requirements["ui_designer"].full_response =
               "What would you like the app to do?"
        /\ ~projects[p].requirements["ui_designer"].has_substance

\* the classifier as the claim words it
ClaimedSubstance(agent_name, text) ==
    LET trimmed == Strip(text)
        first_three == { agent_chain[1], agent_chain[2], agent_chain[3] }
        pure_question ==
            /\ EndsWith(trimmed, "?")
            /\ Len(trimmed) < 80
            /\ \E phrase \in { "what would", "can you", "please provide" } :
                   Contains(phrase, Lower(trimmed))
        role_keywords ==
            CASE agent_name = "frontend_engineer" ->
                     { "javascript", "framework", "component", "interaction" }
              [] agent_name = "data_architect" -> { "database", "storage", "data", "schema" }
              [] agent_name = "api_designer" -> { "endpoint", "api", "rest", "backend" }
              [] agent_name = "devops" -> { "deployment", "hosting", "server", "cloud" }
              [] OTHER -> {}
    IN  IF Len(trimmed) < 20 THEN FALSE
        ELSE IF agent_name \in first_three
        THEN Len(trimmed) >= 30 /\ ~pure_question
        ELSE Len(trimmed) >= 40 /\ \E k \in role_keywords : Contains(k, Lower(trimmed))

claimed_substance ==
    [ r \in Replies \cup ClassifyReplies |->
        [ a \in Agents |-> ClaimedSubstance(a, r) ] ]

\* the ledgers in view: those of the stored projects and, around a write
\* applied on its own, the ledger before it and the ledger after it
LedgersInView ==
    { projects[p].requirements : p \in DOMAIN projects }
    \cup (IF call.fn = "_extract_requirements_enhanced"
          THEN { call.project_data.requirements }
               \cup (IF call.done THEN { call.result.requirements } ELSE {})
          ELSE {})

\* C12: the has_substance flag of every stored record equals the classifier
\* applied to the record's role key and its stored response text: false
\* below 20 trimmed characters; for the first three roles true iff at least
\* 30 characters and not a pure question; for the other four true iff at
\* least 40 characters and one of the role's technical keywords occurs.
C12_FlagIsClassifier ==
    \A ledger \in LedgersInView :
        \A a \in DOMAIN ledger :
            /\ ledger[a].agent = a
            /\ ledger[a].has_substance =
                   IF ledger[a].full_response \in DOMAIN claimed_substance /\ a \in Agents
                   THEN claimed_substance[ledger[a].full_response][a]
                   ELSE ClaimedSubstance(a, ledger[a].full_response)

\* a record written over a ledger that held another: a reply with a
\* capitalised keyword counts for the data architect
C12_Witness ==
    /\ call.fn = "_extract_requirements_enhanced"
    /\ call.done
    /\ call.agent_name = "data_architect"
    /\ call.response = "One Database table of tasks and of owners."
    /\ "ui_designer" \in DOMAIN call.result.requirements
    /\ call.result.requirements["data_architect"].has_substance

\* a call of the structure planner has returned
Planned == call.fn = "plan_project_structure" /\ call.done

\* the paths of a list, as a set
PathSet(file_list) == { file_list[i] : i \in 1..Len(file_list) }

\* no path occurs twice in the list
NoRepeats(file_list) ==
    \A i, j \in 1..Len(file_list) : file_list[i] = file_list[j] => i = j

\* C13: whatever the completion service does, the structure planner
\* returns a list that contains the five baseline paths; when the call
\* fails the list is exactly the five baseline paths.
C13_BaselineAlwaysPlanned ==
    Planned =>
        /\ { "app.py", "requirements.txt", "templates/index.html",
             "static/css/style.css", "static/js/app.js" } \subseteq PathSet(call.result)
        /\ ~call.reply.ok =>
               call.result = << "app.py", "requirements.txt", "templates/index.html",
                                "static/css/style.css", "static/js/app.js" >>

\* a reply of prose and code only: the plan is still the baseline
C13_Witness ==
    /\ Planned
    /\ call.reply = PlanningReply("Here is the file list:\nfrom flask import Flask")
    /\ Len(call.result) = 5
    /\ "static/js/app.js" \in PathSet(call.result)

\* the conflict groups of the claim: canonical path and bare aliases
claimed_groups ==
    { [ canonical |-> "templates/index.html", aliases |-> { "index.html" } ],
      [ canonical |-> "static/css/style.css", aliases |-> { "style.css", "styles.css" } ],
      [ canonical |-> "static/js/app.js", aliases |-> { "app.js", "scripts.js" } ] }

\* C14: every plan the structure planner returns has no repeated path and,
\* for each conflict group, holds the canonical nested path (once) and none
\* of the group's bare aliases, whatever aliases and canonical paths the
\* reply listed and in whatever order.
C14_CanonicalOnce ==
    Planned =>
        /\ NoRepeats(call.result)
        /\ \A g \in claimed_groups :
               /\ Cardinality({ i \in 1..Len(call.result) : call.result[i] = g.canonical }) = 1
               /\ PathSet(call.result) \cap g.aliases = {}

\* style.css listed together with static/css/style.css and styles.css
C14_Witness ==
    /\ Planned
    /\ call.reply = PlanningReply("style.css\nstatic/css/style.css\nstyles.css")
    /\ call.result[1] = "static/css/style.css"
    /\ Len(call.result) = 5

\* a run of generate_project has returned
Built == call.fn = "generate_project" /\ call.done

\* the records of the run for one path
RecordsOf(path) ==
    { i \in 1..Len(call.result.generated_files) :
          call.result.generated_files[i].path = path }

\* the completion call of the k-th planned file failed
CompletionFailed(k) == ~call.outcomes[k].completion.ok

\* C15 as stated: when the completion call of the k-th of N planned files
\* fails, the run returns a record for every other file that was generated
\* and fewer than N records in all.
C15_FailureLowersCount ==
    Built =>
        \A k \in 1..Len(call.file_structure) :
            CompletionFailed(k) =>
                /\ \A j \in 1..Len(call.file_structure) :
                       (j # k /\ call.outcomes[j] = Generated(call.file_structure[j]))
                           => RecordsOf(call.file_structure[j]) # {}
                /\ Len(call.result.generated_files) < Len(call.file_structure)

\* the lines of a text all start a comment
IsComment(text) ==
    \A i \in 1..Len(Split(text, "\n")) : StartsWith(Split(text, "\n")[i], "#")

\* C16: a failed completion call yields, for its file, a placeholder that is
\* a comment naming the file and holding the error text; whether a
\* completion call or a write fails for a file, the run goes on to attempt
\* every later file of the plan, in order, and returns.
C16_PlaceholderAndGoOn ==
    Built =>
        /\ Len(call.result.attempts) = Len(call.file_structure)
        /\ \A k \in 1..Len(call.file_structure) :
               /\ call.result.attempts[k].file_path = call.file_structure[k]
               /\ call.result.attempts[k].completion = call.outcomes[k].completion
               /\ CompletionFailed(k) =>
                      /\ IsComment(call.result.attempts[k].content)
                      /\ Contains(call.file_structure[k], call.result.attempts[k].content)
                      /\ Contains(call.outcomes[k].completion.content,
                                  call.result.attempts[k].content)

\* the completion call of the first file fails and the last file is
\* generated and recorded all the same
C16_Witness ==
    /\ Built
    /\ CompletionFailed(1)
    /\ call.result.attempts[1].content
           = "# Error generating app.py. Please try again.\n# connection refused"
    /\ call.outcomes[Len(call.file_structure)]
           = Generated(call.file_structure[Len(call.file_structure)])
    /\ RecordsOf(call.file_structure[Len(call.file_structure)]) # {}

\* C17: validation only warns. Every file that is written gets one record
\* holding the content the generator returned, whether or not either
\* validator warned; a reply the generator returns as it stands is recorded
\* as it stands.
C17_ValidationAdvisory ==
    Built =>
        \A k \in 1..Len(call.file_structure) :
            LET attempt == call.result.attempts[k]
            IN  /\ attempt.written =>
                       \E i \in RecordsOf(attempt.file_path) :
                           call.result.generated_files[i].content = attempt.content
                /\ (attempt.completion.ok /\ attempt.completion.content = PoorReply)
                       => attempt.content = PoorReply

\* one file fails both validations and is recorded unchanged, another passes
\* both and is recorded too
C17_Witness ==
    /\ Built
    /\ \E k \in 1..Len(call.file_structure) :
           /\ call.result.attempts[k].agent_warning
           /\ call.result.attempts[k].builder_warning
           /\ \E i \in RecordsOf(call.file_structure[k]) :
                  call.result.generated_files[i].content = "TODO"
    /\ \E k \in 1..Len(call.file_structure) :
           /\ ~call.result.attempts[k].agent_warning
           /\ ~call.result.attempts[k].builder_warning
           /\ call.result.attempts[k].completion.ok
           /\ RecordsOf(call.file_structure[k]) # {}

\* the attempts before the k-th whose file was recorded
AcceptedBefore(k) ==
    SelectSeq(SubSeq(call.result.attempts, 1, k - 1), LAMBDA a : a.written)

\* C18: the completion service is called once for each planned file, in the
\* order of the plan, and the call for the k-th file is handed exactly the
\* records accepted for the earlier files of this run, in order: path and
\* the first 500 characters of the content.
C18_ContextOfEarlierFiles ==
    Built =>
        /\ Len(call.result.attempts) = Len(call.file_structure)
        /\ \A k \in 1..Len(call.file_structure) :
               /\ call.result.attempts[k].file_path = call.file_structure[k]
               /\ call.result.attempts[k].existing_files
                      = [ i \in 1..Len(AcceptedBefore(k)) |->
                            [ path |-> AcceptedBefore(k)[i].file_path,
                              content_preview |->
                                  IF Len(AcceptedBefore(k)[i].content) > 500
                                  THEN SubSeq(AcceptedBefore(k)[i].content, 1, 500)
                                  ELSE AcceptedBefore(k)[i].content ] ]

\* the project holds the records of an earlier run, the first file of this
\* run is skipped, and the third call is handed the second file alone
C18_Witness ==
    /\ Built
    /\ Len(call.project_data.generated_files) > 0
    /\ ~call.result.attempts[1].written
    /\ call.result.attempts[2].written
    /\ Len(call.result.attempts[3].existing_files) = 1
    /\ call.result.attempts[3].existing_files[1].path = call.file_structure[2]

\* a generation run has just answered
RunAnswered == Len(out) = 2 /\ out[2].type = "code_generated"

\* C19 as stated: after a generation run of a project, the second or a later
\* one included, the stored generated_files list holds exactly one record
\* for each path the run returned and no record of an earlier run.
C19_ReplacedByLatestRun ==
    RunAnswered =>
        LET stored == projects[out[2].project_id].generated_files
        IN  /\ Len(stored) = Len(out[2].files)
            /\ \A i \in 1..Len(stored) : stored[i].path = out[2].files[i].path

\* C20 as stated: in every reachable state no two projects are bound to the
\* same port.
C20_PortTableInjective ==
    \A p \in DOMAIN preview_ports, q \in DOMAIN preview_ports :
        p # q => preview_ports[p] # preview_ports[q]

\* the URL a preview request was answered with, if the last request was one
AnsweredUrl(o) ==
    IF Len(o) = 1 /\ o[1].type = "preview_url" THEN << o[1].preview_url >>
    ELSE IF Len(o) = 2 /\ o[2].type = "code_generated" THEN << o[2].preview_url >>
    ELSE << >>

\* C21: a binding, once in the table, is never changed or removed; no step
\* spawns a server for a project that is bound; and a preview request
\* (get_preview, or the preview step of generate_code) for a bound project is
\* answered with the URL of the bound port.
C21_BindingStable ==
    [][ \A p \in DOMAIN preview_ports :
          /\ p \in DOMAIN preview_ports'
          /\ preview_ports'[p] = preview_ports[p]
          /\ \A server \in preview_servers' \ preview_servers : server.project_id # p
          /\ (lastReq'.project_id = p /\ AnsweredUrl(out') # << >>)
                 => AnsweredUrl(out') = << PreviewUrl(preview_ports[p]) >> ]_vars

\* p2 was bound to the second port of the range, so p1 held the first by
\* then; p1's server has exited since, and the request for p1's preview that
\* came last was answered with p1's port and started nothing
C21_Witness ==
    /\ "p1" \in DOMAIN preview_ports /\ preview_ports["p1"] = 3001
    /\ "p2" \in DOMAIN preview_ports /\ preview_ports["p2"] = 3002
    /\ lastReq = Request("get_preview", "p1", "")
    /\ out = << [ type |-> "preview_url", preview_url |-> PreviewUrl(3001) ] >>
    /\ \A server \in preview_servers : server.project_id # "p1"

\* C22: a start is READY exactly when one probe, of at most max_attempts, saw
\* 200 or 404, and that probe was the last one made; while the wait goes on
\* fewer than max_attempts probes were made and none saw 200 or 404; the wait
\* is FAILED only after max_attempts probes none of which saw 200 or 404; and
\* the table of bindings changes only by binding the project of a READY start
\* to the port that was probed.
C22_ReadyOnlyAfterGoodProbe ==
    /\ [](call.fn = "_wait_for_server_ready" =>
            /\ call.attempt <= 15
            /\ call.result \in { "WAITING", "READY", "FAILED" }
            /\ call.result = "READY" <=> call.successes > 0
            /\ call.result = "READY" => call.successes = 1 /\ call.last \in { "200", "404" }
            /\ call.result = "FAILED" <=> (call.attempt = 15 /\ call.successes = 0)
            /\ call.result = "WAITING" => call.attempt < 15
            /\ call.project_id \notin DOMAIN preview_ports)
    /\ [][ /\ (call.fn = "_wait_for_server_ready" /\ call' # call /\ call' # NoCall)
                => call'.attempt = call.attempt + 1 /\ call.result = "WAITING"
           /\ preview_ports' # preview_ports
                => /\ call.fn = "_wait_for_server_ready" /\ call.result = "READY"
                   /\ preview_ports' = Put(preview_ports, call.project_id, call.port) ]_vars

\* a start that became ready on its fifteenth and last probe
C22_Witness ==
    /\ call.fn = "_wait_for_server_ready"
    /\ call.attempt = 15 /\ call.result = "READY" /\ call.last = "404"

\* a start that failed: fifteen probes, the last a status other than 200/404
C22_WitnessFailed ==
    /\ call.fn = "_wait_for_server_ready"
    /\ call.attempt = 15 /\ call.result = "FAILED" /\ call.last = "500"

\* the kinds of the messages sent
Kinds(o) == { o[i].type : i \in DOMAIN o }

\* C23: the removal of the source directory is attempted at most three times
\* in a run; the run goes on to the planner exactly when one attempt removed
\* it, and that attempt was the last one made; when three attempts failed the
\* run ends with no planner call and no completion call made, the client
\* having been sent code_generation_error and no code_generated.
C23_CleanThreeTimes ==
    /\ [](call.fn = "_clean_project_directory" =>
            /\ call.attempt <= 3
            /\ call.result = "RAISED" <=> call.failures = 3
            /\ call.result = "CLEANED" <=> call.failures = call.attempt - 1
            /\ call.result = "CLEANING" <=> (call.failures = call.attempt /\ call.attempt < 3))
    /\ [][ /\ (planner_calls' # planner_calls \/ file_calls' # file_calls)
                => call.fn = "_clean_project_directory" /\ call.failures < call.attempt
           /\ (call.fn = "_clean_project_directory" /\ call' = NoCall /\ call.failures < 3)
                => planner_calls' = planner_calls + 1
           /\ (call.fn = "_clean_project_directory" /\ call' = NoCall /\ call.failures = 3)
                => /\ planner_calls' = planner_calls /\ file_calls' = file_calls
                   /\ projects' = projects
                   /\ "code_generation_error" \in Kinds(out')
                   /\ "code_generated" \notin Kinds(out') ]_vars

\* a run that was abandoned after its third failed removal
C23_Witness ==
    /\ call = NoCall
    /\ lastReq.type = "generate_code"
    /\ "code_generation_error" \in Kinds(out)

\* a run that went on after two failed removals and a third that succeeded
C23_WitnessProceeds ==
    /\ call.fn = "_clean_project_directory"
    /\ call.attempt = 3 /\ call.failures = 2 /\ call.result = "CLEANED"

\* what was sent in a session for its n-th message, in order
SendsOf(s, n) ==
    LET IsOf(e) == e.session = s /\ e.request = n
        mine == SelectSeq(call.log, IsOf)
    IN  [ i \in DOMAIN mine |-> mine[i].send ]

\* the n-th message of a session has been processed to its end
Processed(s, n) ==
    /\ n <= call.sessions[s].taken
    /\ \A a \in call.sessions[s].active : a.request # n

\* C24: a session is closed only by the transport; a message that is not JSON
\* is answered with the parse error and one of no known kind with the
\* unknown-kind error, and a message whose handling failed with an error too;
\* and the message that arrives after any of these is processed as it is on
\* a fresh session.
C24_SessionSurvivesFaults ==
    \A s \in Sessions :
        LET session == call.sessions[s]
        IN  /\ ~session.connected => session.closed_by = "transport"
            /\ \A n \in 1..Len(session.received) :
                 (Processed(s, n) /\ session.connected) =>
                    /\ session.received[n] = "not JSON"
                         => SendsOf(s, n) = << Sent("error", "Invalid JSON format") >>
                    /\ session.received[n] = "unknown kind"
                         => SendsOf(s, n) = << Sent("error", "Unknown message type") >>
                    /\ session.received[n] = "not an object"
                         => SendsOf(s, n) = << Sent("error", "Processing error") >>
                    /\ session.received[n] = "ping"
                         => SendsOf(s, n) = << Sent("pong", "pong") >>
                    /\ session.received[n] = "user_message"
                         => SendsOf(s, n) = << Sent("agent_response", ""),
                                               Sent("generation_status", "") >>

\* after a message whose handling failed, a chat message was answered in full
C24_Witness ==
    /\ call.sessions["s1"].connected
    /\ call.sessions["s1"].received = << "not an object", "user_message" >>
    /\ Processed("s1", 2)
    /\ Len(SendsOf("s1", 2)) = 2

\* C25: in the order in which things are sent, everything sent for the i-th
\* message of a session comes before anything sent for a later message of
\* that session, whatever the other session does in between; a session never
\* has two messages in processing.
C25_ArrivalOrder ==
    /\ \A i, j \in DOMAIN call.log :
         (i < j /\ call.log[i].session = call.log[j].session)
             => call.log[i].request <= call.log[j].request
    /\ \A s \in Sessions : Cardinality(call.sessions[s].active) <= 1

\* the other session was served between the two sends of the first message
\* of s1 while the second message of s1 was waiting; it was processed after
C25_Witness ==
    /\ Len(call.log) >= 5
    /\ call.log[1].session = "s1" /\ call.log[1].request = 1
    /\ call.log[2].session = "s2"
    /\ call.log[3].session = "s1" /\ call.log[3].request = 1
    /\ call.log[4].session = "s2"
    /\ call.log[5].session = "s1" /\ call.log[5].request = 2

\* the kinds of request that name a project
NamesProject == { "user_message", "check_generation_status", "generate_code", "get_preview" }

\* C26: a request that names a project id no stored project has is answered
\* with one error response and changes no project document, ledger entry,
\* message or preview binding.
C26_UnknownProjectIsError ==
    [][ (lastReq'.type \in NamesProject /\ lastReq'.project_id \notin DOMAIN projects)
            => /\ Len(out') = 1 /\ out'[1].type = "error"
               /\ UNCHANGED << projects, agent_progress, preview_ports, preview_servers >> ]_vars

\* how many of the messages sent are of one of the kinds
CountKinds(o, kinds) == Cardinality({ i \in DOMAIN o : o[i].type \in kinds })

\* C27: a generate_code request for a stored project that the gate lets pass
\* is answered with generation_started first and then with exactly one of
\* code_generated and code_generation_error, never with generation_failed;
\* code_generated reports no more files than were planned; a request the gate
\* refuses is answered with generation_failed alone.
C27_OneTerminalOutcome ==
    [][ (lastReq'.type = "generate_code" /\ lastReq'.project_id \in DOMAIN projects)
            => IF can_generate_code(projects[lastReq'.project_id]).can_generate
               THEN /\ Len(out') >= 2
                    /\ out'[1].type = "generation_started"
                    /\ out'[2].type \in { "code_generated", "code_generation_error" }
                    /\ CountKinds(out', { "code_generated", "code_generation_error" }) = 1
                    /\ CountKinds(out', { "generation_started" }) = 1
                    /\ "generation_failed" \notin Kinds(out')
                    /\ out'[2].type = "code_generated"
                         => out'[2].file_count <= file_calls' - file_calls
               ELSE /\ Len(out') = 1
                    /\ out'[1].type = "generation_failed" ]_vars

\* a partial success: code_generated with fewer files than were planned
C27_Witness ==
    /\ lastReq.type = "generate_code"
    /\ Len(out) = 2
    /\ out[1].type = "generation_started"
    /\ out[2].type = "code_generated"
    /\ out[2].file_count < file_calls

\* a total failure: generation_started, then code_generation_error
C27_WitnessFailure ==
    /\ lastReq.type = "generate_code"
    /\ Len(out) = 3
    /\ out[1].type = "generation_started"
    /\ out[2].type = "code_generation_error"

\* C28: a generation run at whose end the project has no preview (the server
\* started for it did not become ready) is answered with
\* code_generation_error and not with code_generated.
C28_PreviewFailureIsFatal ==
    [][ (planner_calls' = planner_calls + 1
         /\ lastReq'.project_id \notin DOMAIN preview_ports')
            => /\ "code_generation_error" \in Kinds(out')
               /\ "code_generated" \notin Kinds(out') ]_vars

\* C29: no port is bound and no preview server is started for a project whose
\* readiness gate is closed: a step that gives a project a server or a
\* binding it did not have finds can_generate true for it.
C29_PreviewBehindGate ==
    [][ \A p \in DOMAIN projects :
          (\/ p \in DOMAIN preview_ports' \ DOMAIN preview_ports
           \/ \E server \in preview_servers' \ preview_servers : server.project_id = p)
              => can_generate_code(projects[p]).can_generate ]_vars

\* C30: a message that contains a keyword of the current role and a keyword
\* of another role, no approval override applying, is routed to a role other
\* than the current one.
C30_KeywordRuleSkipsCurrent ==
    Routed =>
        LET mentioned == MentionedAgents(call.user_message)
        IN  (/\ call.current_agent \in mentioned
             /\ mentioned \ { call.current_agent } # {}
             /\ ~OverrideApplies(call.current_agent, call.user_message))
            => call.result # call.current_agent

\* a port that is neither in the table nor held by anyone
Allocatable(port, host) ==
    /\ \A q \in DOMAIN preview_ports : preview_ports[q] # port
    /\ ~(host.foreign = "configured range" /\ port \in 3001..3010)
    /\ host.foreign # "both ranges"
    /\ \A server \in preview_servers : server.port # port

\* the hosts that differ in what the allocation reads
AllocationHosts == { Host(foreign, os_port, "ready") :
                         foreign \in ForeignListeners, os_port \in EphemeralPorts }

\* C31: in every state and on every host the allocation returns the lowest
\* port of 3001-3010 that is not in the table and can be bound; if there is
\* none, the lowest such port of 8000-8999; if there is none, the port the
\* system chooses (none only when the system's bind fails).
C31_AllocationOrder ==
    \A host \in AllocationHosts :
        LET port == _get_available_port(host)
        IN  CASE port \in 3001..3010 ->
                   /\ Allocatable(port, host)
                   /\ \A lower \in 3001..(port - 1) : ~Allocatable(lower, host)
              [] port \in 8000..8999 ->
                   /\ Allocatable(port, host)
                   /\ \A other \in 3001..3010 : ~Allocatable(other, host)
                   /\ \A lower \in 8000..(port - 1) : ~Allocatable(lower, host)
              [] OTHER ->
                   /\ \A other \in 3001..3010 : ~Allocatable(other, host)
                   /\ \A other \in 8000..8999 : ~Allocatable(other, host)
                   /\ port \in { host.os_port, 0 }
                   /\ port = 0 <=> \E server \in preview_servers : server.port = host.os_port

\* p1 is bound to 3001 and its server has exited: 3001 could be bound, but it
\* is in the table and the allocation passes it over; with the configured
\* range held by others it goes to the fallback range, with both held it
\* takes the system's port
C31_Witness ==
    /\ "p1" \in DOMAIN preview_ports /\ preview_ports["p1"] = 3001
    /\ preview_servers = {}
    /\ _get_available_port(Host("none", 49152, "ready")) = 3002
    /\ _get_available_port(Host("configured range", 49152, "ready")) = 8000
    /\ _get_available_port(Host("both ranges", 49153, "ready")) = 49153

\* C32: when the handling of new_project fails the client is sent an error
\* and no document of the project of that request remains; and no step
\* removes a document that was there before it.
C32_FailedCreationLeavesNothing ==
    [][ /\ (lastReq'.type = "new_project" /\ "error" \in Kinds(out'))
             => lastReq'.project_id \notin DOMAIN projects'
        /\ (lastReq'.type = "new_project" /\ lastReq'.project_id \notin DOMAIN projects')
             => "error" \in Kinds(out')
        /\ \A p \in DOMAIN projects : p \in DOMAIN projects' ]_vars

\* C33: a project that has had a turn holds, as its last message, the reply
\* of its active role; on every later turn whose message matches neither an
\* approval override nor a keyword, an active role that is not the last one
\* is replaced by its successor, whatever its record says; on a project's
\* first turn such a message keeps the active role.
C33_AdvanceAfterFirstTurn ==
    /\ [](\A p \in DOMAIN projects :
            LET messages == projects[p].messages
            IN  messages # << >> =>
                    /\ messages[Len(messages)].role = "agent"
                    /\ messages[Len(messages)].agent = projects[p].active_agent)
    /\ [][ \A p \in DOMAIN projects :
             LET current_agent == projects[p].active_agent
             IN  (/\ TurnOf(p)
                  /\ ~OverrideApplies(current_agent, lastReq'.message)
                  /\ MentionedAgents(lastReq'.message) = {}
                  /\ current_agent # agent_chain[Len(agent_chain)])
                 => IF projects[p].messages = << >>
                    THEN projects'[p].active_agent = current_agent
                    ELSE projects'[p].active_agent = Successor(current_agent) ]_vars

\* a second turn: the API role, whose record is a question, is left for the
\* deployment role by a message that names nothing
C33_Witness ==
    \E p \in DOMAIN projects :
        /\ lastReq = Request("user_message", p, "I want a todo app")
        /\ Len(projects[p].messages) = 4
        /\ projects[p].messages[3].agent = "api_designer"
        /\ ~projects[p].requirements["api_designer"].has_substance
        /\ projects[p].active_agent = "devops"

\* the record of the requirements role, if there is one
RequirementsRecord(project_data) ==
    IF "requirements_evolver" \in DOMAIN project_data.requirements
    THEN << project_data.requirements["requirements_evolver"] >>
    ELSE << >>

\* what the decision reads of the routing messages: every combination of
\* approval and keyword role that one of them shows
route_facts == { message_facts[m] : m \in RouteMessages }

\* C34: a project whose active role is not the requirements role is routed to
\* the requirements role by no message; no step makes the requirements role
\* its active role again, and no step writes the requirements role's record.
C34_RequirementsRoleNeverReturns ==
    /\ [](\A p \in DOMAIN projects :
            projects[p].active_agent # "requirements_evolver" =>
                \A facts \in route_facts :
                    Decide(projects[p].active_agent, facts, projects[p])
                        # "requirements_evolver")
    /\ [][ \A p \in DOMAIN projects :
             projects[p].active_agent # "requirements_evolver" =>
                 /\ projects'[p].active_agent # "requirements_evolver"
                 /\ RequirementsRecord(projects'[p]) = RequirementsRecord(projects[p]) ]_vars

\* the requirements role answered the first turn and was left on the second,
\* which was answered by the UX role; its record is that of the first turn
C34_Witness ==
    \E p \in DOMAIN projects :
        /\ Len(projects[p].messages) = 4
        /\ projects[p].messages[2].agent = "requirements_evolver"
        /\ projects[p].messages[4].agent = "ux_architect"
        /\ projects[p].active_agent = "ux_architect"
        /\ RequirementsRecord(projects[p]) # << >>
        /\ RequirementsRecord(projects[p])[1].user_message = "I want a todo app"
        /\ lastReq.message # "I want a todo app"

\* C35: a turn changes the set of roles with a substantive record through the
\* answering role only: afterwards that role is in the set exactly when the
\* reply of the turn is substantive for it, whatever its record said before,
\* and every other role is in the set exactly when it was; the count changes
\* by one at most.
C35_CountFollowsAnsweringRole ==
    [][ \A p \in DOMAIN projects :
          TurnOf(p) =>
              LET answering == out'[1].agent
                  before == SubstantialAgents(projects[p].requirements)
                  after == SubstantialAgents(projects'[p].requirements)
              IN  /\ answering = projects'[p].active_agent
                  /\ after \ { answering } = before \ { answering }
                  /\ answering \in after <=> has_substance(out'[1].message, answering)
                  /\ Cardinality(after) - Cardinality(before) \in { -1, 0, 1 } ]_vars

\* readiness was reported true after the second turn and false after the
\* third: the API role, reached by its keyword again, answered with a
\* question and its substantive record was overwritten
C35_Witness ==
    /\ call.fn = "handle_user_message"
    /\ call.can_generate = << FALSE, TRUE, FALSE >>
    /\ lastReq.message = "Put it on a server"
    /\ out[1].agent = "api_designer"
    /\ projects["p1"].messages[4].agent = "api_designer"
    /\ ~projects["p1"].requirements["api_designer"].has_substance
    /\ SubstantialAgents(projects["p1"].requirements) = { "ui_designer" }

PreviewRequestOf(p) ==
    /\ call.fn = "serve_preview"
    /\ call'.requests = call.requests + 1
    /\ lastReq' = Request("get_preview", p, "")

\* C37: a preview request that spawned a process and was answered with the
\* empty URL (the start was not ready) leaves the table of bindings as it was
\* and the project without a binding; and every preview request for a stored
\* project without a binding spawns a process, on the port the allocation
\* returns then, and is answered with that port or with the empty URL.
C37_FailedStartLeavesUnbound ==
    [][ \A p \in PreviewProjects :
          PreviewRequestOf(p) =>
              /\ (call'.spawns > call.spawns /\ out'[1].preview_url = NoUrl)
                     => preview_ports' = preview_ports /\ p \notin DOMAIN preview_ports'
              /\ (p \in DOMAIN projects /\ p \notin DOMAIN preview_ports)
                     => /\ call'.spawns = call.spawns + 1
                        /\ out'[1].preview_url # NoUrl
                               => /\ p \in DOMAIN preview_ports'
                                  /\ out'[1].preview_url = PreviewUrl(preview_ports'[p])
                                  /\ [ project_id |-> p, port |-> preview_ports'[p] ]
                                         \in preview_servers' \ preview_servers ]_vars

\* p1's first start failed while its server listens on 3001, its second
\* request spawned again and was answered with the next port
C37_Witness ==
    /\ call.fn = "serve_preview"
    /\ call.requests = 2 /\ call.spawns = 2
    /\ lastReq = Request("get_preview", "p1", "")
    /\ preview_servers = { [ project_id |-> "p1", port |-> 3001 ],
                           [ project_id |-> "p1", port |-> 3002 ] }
    /\ DOMAIN preview_ports = { "p1" } /\ preview_ports["p1"] = 3002
    /\ out = << [ type |-> "preview_url", preview_url |-> PreviewUrl(3002) ] >>

\* the live spawned processes: those that have not bound their port yet and
\* those that listen
LiveProcesses ==
    { [ project_id |-> process.project_id, port |-> process.port ] :
          process \in call.starting } \cup preview_servers

\* C38: no port is targeted by live spawned processes of two projects, the
\* processes of starts reported failed included: a port handed to the spawn of
\* one project is not handed to the spawn of another while the earlier
\* process is starting or running.
C38_OneProcessPerPort ==
    call.fn = "serve_preview" =>
        \A a \in LiveProcesses, b \in LiveProcesses :
            a.port = b.port => a.project_id = b.project_id

\* _normalize_file_path applied to every path of a list
NormalizeAll(file_list) == [ i \in 1..Len(file_list) |-> _normalize_file_path(file_list[i]) ]

\* the paths of a reply after alias normalization and conflict resolution
PostProcessed(content) ==
    _resolve_file_conflicts(PathsOfLines(Split(Strip(content), "\n")))

\* C39: alias normalization and conflict resolution, applied to the list they
\* produced from a reply and to the plan returned, give that list again, in
\* the same order; every path of such a list is returned unchanged by the
\* normalization, and so is every canonical path.
C39_PostProcessingIdempotent ==
    Planned =>
        /\ call.reply.ok =>
               LET output == PostProcessed(call.reply.content)
               IN  /\ NormalizeAll(output) = output
                   /\ _resolve_file_conflicts(output) = output
                   /\ _resolve_file_conflicts(NormalizeAll(output)) = output
        /\ _resolve_file_conflicts(NormalizeAll(call.result)) = call.result
        /\ \A g \in claimed_groups : _normalize_file_path(g.canonical) = g.canonical

\* three aliases, two of one group: the list produced holds two canonical
\* paths, and producing it again from itself changes nothing
C39_Witness ==
    /\ Planned
    /\ call.reply = PlanningReply("scripts.js\nindex.html\napp.js")
    /\ PostProcessed(call.reply.content) = << "static/js/app.js", "templates/index.html" >>
    /\ _resolve_file_conflicts(NormalizeAll(PostProcessed(call.reply.content)))
           = << "static/js/app.js", "templates/index.html" >>
    /\ call.result[1] = "static/js/app.js" /\ call.result[2] = "templates/index.html"

====
